---------------------------- MODULE Spec2Model ----------------------------
(***************************************************************************)
(* A model of pingo (src/pingo.go, src/unix-funcs.go): the address store,  *)
(* the UI handlers that run on the gocui main loop, the probe scheduler,   *)
(* the per-probe runner / waiter / line-reader goroutines, the three       *)
(* view-update loops and the channels that connect them.                   *)
(*                                                                         *)
(* Go strings are modelled as sequences of one-character strings, so that  *)
(* trimming, splitting, searching and number conversion are computed the   *)
(* way the code computes them.                                             *)
(***************************************************************************)
EXTENDS Integers, Sequences, FiniteSets, Bags, TLC

(***************************************************************************)
(* Bounds of the model.                                                    *)
(***************************************************************************)
\* number of events the program receives from outside: the keys the user
\* presses (start ping, start traceroute, move the cursor, search, stop,
\* add, delete, quit), an error MainLoop returns, the lines the probe processes
\* write and the ends of those processes
MaxInputs == 3

\* the same number in the runs checked under fair scheduling (LiveSpec)
MaxLiveInputs == 2

(***************************************************************************)
(* Strings.                                                                *)
(***************************************************************************)
EmptyStr == << >>

IsSpace(c) == c \in {" ", "\t", "\n", "\r"}

RECURSIVE TrimLeft(_)
TrimLeft(s) ==
    IF s # << >> /\ IsSpace(Head(s)) THEN TrimLeft(Tail(s)) ELSE s

RECURSIVE TrimRight(_)
TrimRight(s) ==
    IF s # << >> /\ IsSpace(s[Len(s)])
    THEN TrimRight(SubSeq(s, 1, Len(s) - 1))
    ELSE s

\* strings.TrimSpace
TrimSpace(s) == TrimRight(TrimLeft(s))

\* strings.HasPrefix
HasPrefix(s, p) == Len(p) <= Len(s) /\ SubSeq(s, 1, Len(p)) = p

\* strings.Index: the 0-based position of the first occurrence, or -1
Index(s, sub) ==
    LET hits == {i \in 0..(Len(s) - Len(sub)) : SubSeq(s, i + 1, i + Len(sub)) = sub}
    IN  IF hits = {} THEN -1 ELSE CHOOSE i \in hits : \A j \in hits : i <= j

\* strings.Contains
Contains(s, sub) == Index(s, sub) >= 0

\* strings.Split(s, sep) for a one-character separator: always at least one
\* field, the empty string included
RECURSIVE Split(_, _)
Split(s, sep) ==
    LET i == Index(s, <<sep>>)
    IN  IF i < 0 THEN <<s>>
        ELSE <<SubSeq(s, 1, i)>> \o Split(SubSeq(s, i + 2, Len(s)), sep)

Digits == <<"0", "1", "2", "3", "4", "5", "6", "7", "8", "9">>

DigitVal(c) == (CHOOSE i \in 1..10 : Digits[i] = c) - 1

IsDigit(c) == \E i \in 1..10 : Digits[i] = c

RECURSIVE DigitsVal(_)
DigitsVal(s) ==
    IF s = << >> THEN 0
    ELSE 10 * DigitsVal(SubSeq(s, 1, Len(s) - 1)) + DigitVal(s[Len(s)])

\* strconv.Atoi with the error dropped (v, _ := strconv.Atoi(s)): the value
\* of an optionally signed run of digits, and 0 for anything else
Atoi(s) ==
    LET signed == s # << >> /\ Head(s) \in {"+", "-"}
        body   == IF signed THEN Tail(s) ELSE s
    IN  IF body = << >> \/ \E i \in 1..Len(body) : ~IsDigit(body[i]) THEN 0
        ELSE IF signed /\ Head(s) = "-" THEN 0 - DigitsVal(body)
        ELSE DigitsVal(body)

RECURSIVE NatToStr(_)
NatToStr(n) ==
    IF n < 10 THEN <<Digits[n + 1]>>
    ELSE NatToStr(n \div 10) \o <<Digits[(n % 10) + 1]>>

\* a / b on Go's int for b > 0: the quotient is truncated toward zero
Quo(a, b) == IF a >= 0 THEN a \div b ELSE 0 - ((0 - a) \div b)

\* strconv.Itoa
Itoa(n) == IF n < 0 THEN <<"-">> \o NatToStr(0 - n) ELSE NatToStr(n)


(***************************************************************************)
(* The values the model draws its inputs from.                             *)
(***************************************************************************)
\* "::1", "1.1.1.1" and "::2"
AddrA == <<":", ":", "1">>
AddrB == <<"1", ".", "1", ".", "1", ".", "1">>
AddrC == <<":", ":", "2">>

Addrs == {AddrA, AddrB}

\* the IP literals net.ParseIP accepts among the strings of the model
ValidIPLiterals == Addrs \cup {AddrC}

\* what the user types into the add / delete input box: an address, and
\* the same address after a blank
InputBuffers == {AddrA, <<" ">> \o AddrA}

\* what the user types in the search box
SearchInputs == Addrs

\* what the files named in the "addFiles" box hold: a line with an address
\* and a line that is no address
FileContents == {AddrA \o <<"\n", "x">>}

\* lines of a probe process: a reply "icmp time=7 ms" and a failure
\* "Request timeout"; the processes of the model write the reply
LineReply ==
    <<"i", "c", "m", "p", " ", "t", "i", "m", "e", "=", "7", " ", "m", "s">>
LineFail ==
    <<"R", "e", "q", "u", "e", "s", "t", " ", "t", "i", "m", "e", "o", "u", "t">>

OutputLines == {LineReply}

\* getCurrentTime: the wall clock formatted as HH:MM:SS
LaunchTimes == {"10:00:00"}

\* a nil pointer, and the value of a variable that holds no address
Nil == [nil |-> TRUE]
NoIP == EmptyStr

(***************************************************************************)
(* The datastore: databases.ips, databases.configs, databases.stats.      *)
(* A db is the record [ips, configs, stats] of the three maps.            *)
(***************************************************************************)
\* &config{start: "n/a"}
NewConfig ==
    [start |-> "n/a", requests |-> 0, threshold |-> 0, timeout |-> 0,
     size |-> 0, backup |-> FALSE]

\* &stat{}
NewStat ==
    [min |-> 0, avg |-> 0, max |-> 0, fails |-> 0, match |-> 0, above |-> 0,
     under |-> 0]

\* insert or overwrite m[k] = v
MapPut(m, k, v) == [x \in (DOMAIN m) \cup {k} |-> IF x = k THEN v ELSE m[x]]

\* delete(m, k)
MapDelete(m, k) == [x \in (DOMAIN m) \ {k} |-> m[x]]

newDatabases == [ips |-> {}, configs |-> << >>, stats |-> << >>]

isValidIP(ip) == ip \in ValidIPLiterals

\* a lookup that never finds the address
isExistsIPNever(db, ip) == FALSE

isExistsIP(db, ip) == ip \in db.ips

addIP(db, ip) == [db EXCEPT !.ips = @ \cup {ip}]

\* an addConfig that stores nothing
addConfigNothing(db, ip) == db

addConfig(db, ip) == [db EXCEPT !.configs = MapPut(@, ip, NewConfig)]

addStats(db, ip) == [db EXCEPT !.stats = MapPut(@, ip, NewStat)]

addNewIP(db, rawip) ==
    LET ip == TrimSpace(rawip)
    IN  IF ~isValidIP(ip) \/ isExistsIP(db, ip) THEN db
        ELSE addStats(addConfig(addIP(db, ip), ip), ip)

RECURSIVE addEachUntilSkip(_, _)
\* a loop that returns at the first entry it does not add
addEachUntilSkip(db, ipList) ==
    IF ipList = << >> THEN db
    ELSE IF addNewIP(db, Head(ipList)) = db THEN db
    ELSE addEachUntilSkip(addNewIP(db, Head(ipList)), Tail(ipList))

RECURSIVE addEach(_, _)
addEach(db, ipList) ==
    IF ipList = << >> THEN db
    ELSE addEach(addNewIP(db, Head(ipList)), Tail(ipList))

addOneMoreIPs(db, ips) == addEach(db, Split(ips, ","))

\* the pointer stored for ip, or nil
getConfig(db, ip) == IF ip \in DOMAIN db.configs THEN db.configs[ip] ELSE Nil

getStats(db, ip) == IF ip \in DOMAIN db.stats THEN db.stats[ip] ELSE Nil

\* a deleteIP that does not trim its argument
deleteIPUntrimmed(db, rawip) ==
    IF ~isValidIP(rawip) \/ ~isExistsIP(db, rawip) THEN db
    ELSE [ips     |-> db.ips \ {rawip},
          configs |-> MapDelete(db.configs, rawip),
          stats   |-> MapDelete(db.stats, rawip)]

deleteIP(db, rawip) ==
    LET ip == TrimSpace(rawip)
    IN  IF ~isValidIP(ip) \/ ~isExistsIP(db, ip) THEN db
        ELSE [ips     |-> db.ips \ {ip},
              configs |-> MapDelete(db.configs, ip),
              stats   |-> MapDelete(db.stats, ip)]

RECURSIVE deleteEach(_, _, _)
deleteEach(db, ipList, current) ==
    IF ipList = << >> THEN db
    ELSE IF Head(ipList) = current THEN deleteEach(db, Tail(ipList), current)
    ELSE deleteEach(deleteIP(db, Head(ipList)), Tail(ipList), current)

\* current is the value of currentOnPingIP when the handler runs
deleteOneMoreIPs(db, ips, current) == deleteEach(db, Split(ips, ","), current)

\* the characters of the model's strings in byte order
Ascii ==
    <<"\t", "\n", "\r", " ", "%", ",", "-", ".",
      "0", "1", "2", "3", "4", "5", "6", "7", "8", "9", ":", "=", "@",
      "P", "R", "T", "[", "]",
      "a", "c", "e", "g", "i", "m", "n", "o", "p", "q", "r", "s", "t", "u", "x">>

ByteOf(c) == CHOOSE i \in 1..Len(Ascii) : Ascii[i] = c

\* a < b for Go strings: byte-wise, a proper prefix first
RECURSIVE StrLess(_, _)
StrLess(a, b) ==
    IF b = << >> THEN FALSE
    ELSE IF a = << >> THEN TRUE
    ELSE IF Head(a) = Head(b) THEN StrLess(Tail(a), Tail(b))
    ELSE ByteOf(Head(a)) < ByteOf(Head(b))

\* sort.Strings on the keys of a map
RECURSIVE SortStrings(_)
SortStrings(S) ==
    IF S = {} THEN << >>
    ELSE LET least == CHOOSE x \in S : \A y \in S \ {x} : StrLess(x, y)
         IN  <<least>> \o SortStrings(S \ {least})

\* no second sort
StableByLenNothing(seq) == seq

\* sort.SliceStable by len: insert each element behind the elements that
\* are not longer
RECURSIVE StableByLen(_)
StableByLen(seq) ==
    IF seq = << >> THEN << >>
    ELSE LET rest == StableByLen(SubSeq(seq, 1, Len(seq) - 1))
             x    == seq[Len(seq)]
             keep == {i \in 0..Len(rest) :
                        \A j \in 1..Len(rest) : j <= i <=> Len(rest[j]) <= Len(x)}
             at   == IF keep = {} THEN Len(rest) ELSE CHOOSE i \in keep : TRUE
         IN  SubSeq(rest, 1, at) \o <<x>> \o SubSeq(rest, at + 1, Len(rest))

getAllIPs(db) == StableByLen(SortStrings(db.ips))

(***************************************************************************)
(* Statistics: getResponseTime (unix build) and buildStats.                *)
(***************************************************************************)
\* a classification without the final failure case
getResponseTimeNoFailure(output) ==
    LET indexT == Index(output, <<"t", "i", "m", "e", "=">>)
        indexM == Index(output, <<" ", "m", "s">>)
    IN  IF indexT > 0 /\ indexM >= indexT + 5
        THEN [rt |-> Atoi(SubSeq(output, indexT + 6, indexM)),
              failed |-> FALSE, panic |-> FALSE]
        ELSE [rt |-> -1, failed |-> FALSE, panic |-> FALSE]

\* [rt, failed, panic]; panic is the slice expression output[indexT+5:indexM]
\* with indexM before indexT+5 (or -1)
getResponseTime(output) ==
    LET indexT == Index(output, <<"t", "i", "m", "e", "=">>)
        indexM == Index(output, <<" ", "m", "s">>)
    IN  IF indexT > 0
        THEN IF indexM < indexT + 5
             THEN [rt |-> -1, failed |-> FALSE, panic |-> TRUE]
             ELSE [rt |-> Atoi(SubSeq(output, indexT + 6, indexM)),
                   failed |-> FALSE, panic |-> FALSE]
        ELSE IF \/ HasPrefix(output, <<"P", "I", "N", "G">>)
                \/ HasPrefix(output, <<"-", "-", "-">>)
                \/ HasPrefix(output, <<"r", "t", "t">>)
                \/ Contains(output, <<"%">>)
             THEN [rt |-> -1, failed |-> FALSE, panic |-> FALSE]
             ELSE [rt |-> -1, failed |-> TRUE, panic |-> FALSE]

\* the threshold counters moved only when min or max moved
applyReplyCountOnChange(st, rt, thres) ==
    LET first == st.min = 0 /\ st.max = 0
        min1  == IF first \/ rt < st.min THEN rt ELSE st.min
        max1  == IF first THEN rt
                 ELSE IF ~(rt < st.min) /\ st.max < rt THEN rt ELSE st.max
        modif == first \/ rt < st.min \/ st.max < rt
    IN  [min   |-> min1,
         max   |-> max1,
         avg   |-> IF modif THEN Quo(min1 + max1, 2) ELSE st.avg,
         fails |-> st.fails,
         match |-> IF modif /\ rt = thres THEN st.match + 1 ELSE st.match,
         above |-> IF modif /\ rt > thres THEN st.above + 1 ELSE st.above,
         under |-> IF modif /\ rt < thres THEN st.under + 1 ELSE st.under]

\* avg set by the first reply only
applyReplyAvgStale(st, rt, thres) ==
    LET first == st.min = 0 /\ st.max = 0
        min1  == IF first \/ rt < st.min THEN rt ELSE st.min
        max1  == IF first THEN rt
                 ELSE IF ~(rt < st.min) /\ st.max < rt THEN rt ELSE st.max
    IN  [min   |-> min1,
         max   |-> max1,
         avg   |-> IF first THEN rt ELSE st.avg,
         fails |-> st.fails,
         match |-> IF rt = thres THEN st.match + 1 ELSE st.match,
         above |-> IF rt > thres THEN st.above + 1 ELSE st.above,
         under |-> IF rt < thres THEN st.under + 1 ELSE st.under]

\* an update whose second branch is a plain else: max follows every reply
\* that is not under min
applyReplyElseMax(st, rt, thres) ==
    LET first == st.min = 0 /\ st.max = 0
        min1  == IF first \/ rt < st.min THEN rt ELSE st.min
        max1  == IF first \/ ~(rt < st.min) THEN rt ELSE st.max
    IN  [min   |-> min1,
         max   |-> max1,
         avg   |-> Quo(min1 + max1, 2),
         fails |-> st.fails,
         match |-> IF rt = thres THEN st.match + 1 ELSE st.match,
         above |-> IF rt > thres THEN st.above + 1 ELSE st.above,
         under |-> IF rt < thres THEN st.under + 1 ELSE st.under]

\* the record a successful reply rt leaves behind
applyReply(st, rt, thres) ==
    LET first == st.min = 0 /\ st.max = 0
        min1  == IF first \/ rt < st.min THEN rt ELSE st.min
        max1  == IF first THEN rt
                 ELSE IF ~(rt < st.min) /\ st.max < rt THEN rt ELSE st.max
        modif == first \/ rt < st.min \/ st.max < rt
    IN  [min   |-> min1,
         max   |-> max1,
         avg   |-> IF modif THEN Quo(min1 + max1, 2) ELSE st.avg,
         fails |-> st.fails,
         match |-> IF rt = thres THEN st.match + 1 ELSE st.match,
         above |-> IF rt > thres THEN st.above + 1 ELSE st.above,
         under |-> IF rt < thres THEN st.under + 1 ELSE st.under]

\* buildStats(data) on the stats map: [stats, ip, ok, panic]. panic is an
\* index out of range on the split fields, the panic of getResponseTime, or
\* a field access through the nil pointer getStats returned
buildStats(db, data) ==
    LET fields == Split(data, "@")
        ip     == fields[1]
        st     == getStats(db, ip)
        r      == getResponseTime(fields[3])
        same   == [stats |-> db.stats, ip |-> ip, ok |-> FALSE, panic |-> FALSE]
    IN  IF Len(fields) < 3 THEN [same EXCEPT !.panic = TRUE]
        ELSE IF r.panic THEN [same EXCEPT !.panic = TRUE]
        ELSE IF r.rt = -1 /\ ~r.failed THEN same
        ELSE IF st = Nil THEN [same EXCEPT !.panic = TRUE]
        ELSE IF r.rt = -1 /\ r.failed
             THEN [same EXCEPT !.ok = TRUE,
                               !.stats = MapPut(@, ip, [st EXCEPT !.fails = @ + 1])]
        ELSE [same EXCEPT !.ok = TRUE,
                          !.stats = MapPut(@, ip,
                                           applyReply(st, r.rt, Atoi(fields[2])))]


(***************************************************************************)
(* The state of the running program.                                       *)
(***************************************************************************)
VARIABLES
    ips, configs, stats,    \* dbs: the three maps of the datastore
    viewIPs,                \* the lines of the IPLIST view, one address each
    cursor,                 \* the line of the IPLIST view the cursor is on
    statsData,              \* updateStatsView: var data, shared by its closures
    focusedIP,              \* updateConfigView: var ip, shared by its closures
    currentOnPingIP,
    ipToPingChan, ipToTraceChan, outputsTitleChan,      \* capacity 1
    focusedIPChan, outputsDataChan, outputsStatsChan,   \* capacity 10
    exit,                   \* TRUE once close(exit) ran
    wg,                     \* the WaitGroup counter
    ui,                     \* the main goroutine: gocui's MainLoop, then main
    userEvents,             \* the closures g.Update queued, a bag
    sched,                  \* the scheduler goroutine
    ctxDone,                \* ctxDone[i]: context i is cancelled
    probes,                 \* one record per runner the scheduler launched
    views,                  \* the three view-update loops
    panicked,               \* a goroutine panicked: the program is gone
    inputs,                 \* events from outside handled so far
    lastReq                 \* history: the last start or stop the user issued

vars ==
    <<ips, configs, stats, viewIPs, cursor, statsData, focusedIP, currentOnPingIP, ipToPingChan,
      ipToTraceChan, outputsTitleChan, focusedIPChan, outputsDataChan,
      outputsStatsChan, exit, wg, ui, userEvents, sched, ctxDone, probes,
      views, panicked, inputs, lastReq>>

dbs == [ips |-> ips, configs |-> configs, stats |-> stats]

\* channel capacities: make(chan string, 1) and make(chan string, 10)
SmallCap == 1
LargeCap == 10

\* the goroutines main starts and adds to wg
Loops == {"config", "outputs", "stats"}
WgInitial == 4

\* the addresses piped in or read from the files named as arguments
InitialEntries == <<AddrA, AddrB>>

\* the main goroutine: pc is where it stands, ip the address its handler
\* holds, list and i the entries and the index of the loop of addOneMoreIPs,
\* loadInfosFromFiles or deleteOneMoreIPs
Idle == [pc |-> "idle", mode |-> "", ip |-> NoIP, list |-> << >>, i |-> 0]

At(pc, mode, ip) == [Idle EXCEPT !.pc = pc, !.mode = mode, !.ip = ip]

NoReq == [kind |-> "none", ip |-> NoIP]

Event(f, arg) == [f |-> f, arg |-> arg]

\* the state main leaves when it has loaded entries and started its goroutines
mainStart(entries) ==
    LET db == addEach(newDatabases, entries)
    IN  /\ ips = db.ips
        /\ configs = db.configs
        /\ stats = db.stats
        /\ viewIPs = << >>
        /\ cursor = 0
        /\ statsData = EmptyStr
        /\ focusedIP = EmptyStr
        /\ currentOnPingIP = NoIP
        /\ ipToPingChan = << >>
        /\ ipToTraceChan = << >>
        /\ outputsTitleChan = << >>
        /\ focusedIPChan = << >>
        /\ outputsDataChan = << >>
        /\ outputsStatsChan = << >>
        /\ exit = FALSE
        /\ wg = WgInitial
        /\ ui = Idle
        /\ userEvents = SetToBag({Event("ips", EmptyStr)})
        /\ sched = [pc |-> "select", mode |-> "", ip |-> NoIP, cancel |-> 0]
        /\ ctxDone = [i \in {0} |-> FALSE]
        /\ probes = << >>
        /\ views = [l \in Loops |-> "run"]
        /\ panicked = FALSE
        /\ inputs = 0
        /\ lastReq = NoReq

Init == mainStart(InitialEntries)

(***************************************************************************)
(* Channels and contexts.                                                  *)
(***************************************************************************)
CanSend(ch, cap) == Len(ch) < cap

Send(ch, v) == Append(ch, v)

\* a cancel() that leaves the context as it is
CancelNothing(done, i) == done

\* cancel() of context i
Cancel(done, i) == [done EXCEPT ![i] = TRUE]

\* context.WithCancel(context.Background()): the next context, not cancelled
WithCancel(done) ==
    [i \in (DOMAIN done) \cup {Cardinality(DOMAIN done)} |->
        IF i \in DOMAIN done THEN done[i] ELSE FALSE]

\* the program runs: no goroutine panicked and main has not returned
Running == ~panicked /\ ui.pc # "exited"

\* fmt.Sprintf(" Ping [%s] Outputs ", ip), fmt.Sprintf(" Traceroute [%s] Outputs ", ip)
PingTitle(ip) ==
    <<" ", "P", "i", "n", "g", " ", "[">> \o ip
        \o <<"]", " ", "O", "u", "t", "p", "u", "t", "s", " ">>

TracerouteTitle(ip) ==
    <<" ", "T", "r", "a", "c", "e", "r", "o", "u", "t", "e", " ", "[">> \o ip
        \o <<"]", " ", "O", "u", "t", "p", "u", "t", "s", " ">>

\* updateIPsView's Fprintf("[%02d] %-15s", i, ip): line i of the view
ipsLine(i, ip) ==
    <<"[">> \o (IF i < 10 THEN <<"0">> ELSE EmptyStr) \o Itoa(i) \o <<"]", " ">>
        \o ip \o [k \in 1..(15 - Len(ip)) |-> " "]

\* v.Line(y) of the IPLIST view: the address line y shows, NoIP for a line
\* the view does not have
Line(y) == IF y >= 0 /\ y < Len(viewIPs) THEN viewIPs[y + 1] ELSE NoIP

(***************************************************************************)
(* The key handlers and user events gocui's MainLoop runs, one at a time,  *)
(* on the main goroutine. A handler that blocks on a channel send keeps    *)
(* the main loop blocked.                                                  *)
(***************************************************************************)
UIUnchanged ==
    UNCHANGED <<exit, wg, sched, ctxDone, probes, views>>

\* addPing, first part: the address on the focused line, and
\* outputsTitleChan <- " Ping [ip] Outputs "
addPing(ip) ==
    /\ Running /\ ui.pc = "idle" /\ inputs < MaxInputs
    /\ ip = Line(cursor)
    /\ CanSend(outputsTitleChan, SmallCap)
    /\ outputsTitleChan' = Send(outputsTitleChan, PingTitle(ip))
    /\ ui' = At("ip", "ping", ip)
    /\ inputs' = inputs + 1
    /\ UNCHANGED <<ips, configs, stats, viewIPs, cursor, statsData, focusedIP, currentOnPingIP, ipToPingChan,
                   ipToTraceChan, focusedIPChan, outputsDataChan,
                   outputsStatsChan, userEvents, panicked, lastReq>>
    /\ UIUnchanged

\* addPing, second part: ipToPingChan <- ip; currentOnPingIP = ip
addPingIP ==
    /\ Running /\ ui.pc = "ip" /\ ui.mode = "ping"
    /\ CanSend(ipToPingChan, SmallCap)
    /\ ipToPingChan' = Send(ipToPingChan, ui.ip)
    /\ currentOnPingIP' = ui.ip
    /\ lastReq' = [kind |-> "ping", ip |-> ui.ip]
    /\ ui' = [ui EXCEPT !.pc = "focus"]
    /\ UNCHANGED <<ips, configs, stats, viewIPs, cursor, statsData, focusedIP,
                   ipToTraceChan, outputsTitleChan, focusedIPChan,
                   outputsDataChan, outputsStatsChan, exit, wg, userEvents,
                   sched, ctxDone, probes, views, panicked, inputs>>

\* addPing, third part: focusedIPChan <- ip; return
addPingFocus ==
    /\ Running /\ ui.pc = "focus"
    /\ CanSend(focusedIPChan, LargeCap)
    /\ focusedIPChan' = Send(focusedIPChan, ui.ip)
    /\ ui' = Idle
    /\ UNCHANGED <<ips, configs, stats, viewIPs, cursor, statsData, focusedIP,
                   currentOnPingIP, ipToPingChan, ipToTraceChan,
                   outputsTitleChan, outputsDataChan, outputsStatsChan, exit,
                   wg, userEvents, sched, ctxDone, probes, views, panicked,
                   inputs, lastReq>>

\* ipsMoveCursorDown: ipsLineBelow finds a line under the cursor,
\* focusedIPChan <- its address, and the cursor moves down by one line. The
\* cursor stays where it is when updateIPsView rewrites the view.
ipsMoveCursorDown ==
    /\ Running /\ ui.pc = "idle" /\ inputs < MaxInputs
    /\ Line(cursor + 1) # NoIP
    /\ CanSend(focusedIPChan, LargeCap)
    /\ focusedIPChan' = Send(focusedIPChan, Line(cursor + 1))
    /\ cursor' = cursor + 1
    /\ inputs' = inputs + 1
    /\ UNCHANGED <<ips, configs, stats, viewIPs, statsData, focusedIP,
                   currentOnPingIP, ipToPingChan, ipToTraceChan,
                   outputsTitleChan, outputsDataChan, outputsStatsChan, exit,
                   wg, ui, userEvents, sched, ctxDone, probes, views,
                   panicked, lastReq>>

\* ipsMoveCursorUp: ipsLineAbove finds a line over the cursor,
\* focusedIPChan <- its address, and the cursor moves up by one line
ipsMoveCursorUp ==
    /\ Running /\ ui.pc = "idle" /\ inputs < MaxInputs
    /\ Line(cursor - 1) # NoIP
    /\ CanSend(focusedIPChan, LargeCap)
    /\ focusedIPChan' = Send(focusedIPChan, Line(cursor - 1))
    /\ cursor' = cursor - 1
    /\ inputs' = inputs + 1
    /\ UNCHANGED <<ips, configs, stats, viewIPs, statsData, focusedIP,
                   currentOnPingIP, ipToPingChan, ipToTraceChan,
                   outputsTitleChan, outputsDataChan, outputsStatsChan, exit,
                   wg, ui, userEvents, sched, ctxDone, probes, views,
                   panicked, lastReq>>

\* searchAndFocusIP's loop over the lines of the view: the last line whose
\* trimmed text contains input, -1 when there is none
searchPos(input) ==
    LET hits == {i \in 0..(Len(viewIPs) - 1) :
                    Contains(TrimSpace(ipsLine(i, viewIPs[i + 1])), input)}
    IN  IF hits = {} THEN 0 - 1
        ELSE CHOOSE i \in hits : \A j \in hits : j <= i

\* searchAndFocusIP with a valid address in the search box: the cursor goes
\* to the last line that contains it. Nothing is sent on focusedIPChan.
\* With no such line, or with an input that is not an address, the handler
\* leaves the state as it is.
searchAndFocusIP(input) ==
    /\ Running /\ ui.pc = "idle" /\ inputs < MaxInputs
    /\ TrimSpace(input) # EmptyStr /\ isValidIP(TrimSpace(input))
    /\ searchPos(TrimSpace(input)) # 0 - 1
    /\ cursor' = searchPos(TrimSpace(input))
    /\ inputs' = inputs + 1
    /\ UNCHANGED <<ips, configs, stats, viewIPs, statsData, focusedIP,
                   currentOnPingIP, ipToPingChan, ipToTraceChan,
                   outputsTitleChan, focusedIPChan, outputsDataChan,
                   outputsStatsChan, exit, wg, ui, userEvents, sched,
                   ctxDone, probes, views, panicked, lastReq>>

\* addTraceroute, first part: the address on the focused line, and
\* outputsTitleChan <- " Traceroute [ip] Outputs "
addTraceroute(ip) ==
    /\ Running /\ ui.pc = "idle" /\ inputs < MaxInputs
    /\ ip = Line(cursor)
    /\ CanSend(outputsTitleChan, SmallCap)
    /\ outputsTitleChan' = Send(outputsTitleChan, TracerouteTitle(ip))
    /\ ui' = At("ip", "trace", ip)
    /\ inputs' = inputs + 1
    /\ UNCHANGED <<ips, configs, stats, viewIPs, cursor, statsData, focusedIP, currentOnPingIP, ipToPingChan,
                   ipToTraceChan, focusedIPChan, outputsDataChan,
                   outputsStatsChan, userEvents, panicked, lastReq>>
    /\ UIUnchanged

\* addTraceroute, second part:
\* ipToTraceChan <- ip; currentOnPingIP = ""; return
addTracerouteIP ==
    /\ Running /\ ui.pc = "ip" /\ ui.mode = "trace"
    /\ CanSend(ipToTraceChan, SmallCap)
    /\ ipToTraceChan' = Send(ipToTraceChan, ui.ip)
    /\ currentOnPingIP' = NoIP
    /\ lastReq' = [kind |-> "trace", ip |-> ui.ip]
    /\ ui' = Idle
    /\ UNCHANGED <<ips, configs, stats, viewIPs, cursor, statsData, focusedIP, ipToPingChan,
                   outputsTitleChan, focusedIPChan, outputsDataChan,
                   outputsStatsChan, userEvents, panicked, inputs>>
    /\ UIUnchanged

\* stopCurrentProcessing reaches its send on the unbuffered stopProcessingChan;
\* the send itself is the scheduler's receive (schedulerStop)
stopCurrentProcessing ==
    /\ Running /\ ui.pc = "idle" /\ inputs < MaxInputs
    /\ ui' = At("stop", "", NoIP)
    /\ inputs' = inputs + 1
    /\ UNCHANGED <<ips, configs, stats, viewIPs, cursor, statsData, focusedIP,
                   currentOnPingIP, ipToPingChan, ipToTraceChan,
                   outputsTitleChan, focusedIPChan, outputsDataChan,
                   outputsStatsChan, exit, wg, userEvents, sched, ctxDone,
                   probes, views, panicked, lastReq>>

\* stopCurrentProcessing after its send: currentOnPingIP = ""; return
stopCurrentProcessingReturn ==
    /\ Running /\ ui.pc = "stopped"
    /\ currentOnPingIP' = NoIP
    /\ lastReq' = [kind |-> "stop", ip |-> NoIP]
    /\ ui' = Idle
    /\ UNCHANGED <<ips, configs, stats, viewIPs, cursor, statsData, focusedIP,
                   ipToPingChan, ipToTraceChan, outputsTitleChan,
                   focusedIPChan, outputsDataChan, outputsStatsChan, exit, wg,
                   userEvents, sched, ctxDone, probes, views, panicked,
                   inputs>>

\* processInput of the "addIP" box on a buffer that is not blank:
\* addOneMoreIPs splits it at the commas and loops over the entries
processInputAdd(buffer) ==
    /\ Running /\ ui.pc = "idle" /\ inputs < MaxInputs
    /\ TrimSpace(buffer) # EmptyStr
    /\ ui' = [At("add", "add", NoIP) EXCEPT !.list = Split(buffer, ","),
                                            !.i = 1]
    /\ inputs' = inputs + 1
    /\ UNCHANGED <<ips, configs, stats, viewIPs, cursor, statsData, focusedIP,
                   currentOnPingIP, ipToPingChan, ipToTraceChan,
                   outputsTitleChan, focusedIPChan, outputsDataChan,
                   outputsStatsChan, exit, wg, userEvents, sched, ctxDone,
                   probes, views, panicked, lastReq>>

\* processInput of the "addFiles" box: loadInfosFromFiles reads the files.
\* content is what they hold, one after the other; the lines that are valid
\* once trimmed go to addNewIP in turn.
processInputFiles(content) ==
    /\ Running /\ ui.pc = "idle" /\ inputs < MaxInputs
    /\ ui' = [At("add", "files", NoIP) EXCEPT
                 !.list = SelectSeq(Split(content, "\n"),
                                    LAMBDA e : isValidIP(TrimSpace(e))),
                 !.i = 1]
    /\ inputs' = inputs + 1
    /\ UNCHANGED <<ips, configs, stats, viewIPs, cursor, statsData, focusedIP,
                   currentOnPingIP, ipToPingChan, ipToTraceChan,
                   outputsTitleChan, focusedIPChan, outputsDataChan,
                   outputsStatsChan, exit, wg, userEvents, sched, ctxDone,
                   probes, views, panicked, lastReq>>

\* addNewIP of the current entry, up to the end of dbs.addIP(ip): an entry
\* that is not valid once trimmed, or is stored already, is passed over
addNewIPStart ==
    /\ Running /\ ui.pc = "add" /\ ui.i <= Len(ui.list)
    /\ LET ip == TrimSpace(ui.list[ui.i])
       IN  IF ~isValidIP(ip) \/ isExistsIP(dbs, ip)
           THEN /\ ui' = [ui EXCEPT !.i = @ + 1]
                /\ UNCHANGED ips
           ELSE /\ ips' = addIP(dbs, ip).ips
                /\ ui' = [ui EXCEPT !.pc = "addConfig", !.ip = ip]
    /\ UNCHANGED <<configs, stats, viewIPs, cursor, statsData, focusedIP,
                   currentOnPingIP, ipToPingChan, ipToTraceChan,
                   outputsTitleChan, focusedIPChan, outputsDataChan,
                   outputsStatsChan, exit, wg, userEvents, sched, ctxDone,
                   probes, views, panicked, inputs, lastReq>>

\* addNewIP: dbs.addConfig(ip)
addNewIPConfig ==
    /\ Running /\ ui.pc = "addConfig"
    /\ configs' = addConfig(dbs, ui.ip).configs
    /\ ui' = [ui EXCEPT !.pc = "addStats"]
    /\ UNCHANGED <<ips, stats, viewIPs, cursor, statsData, focusedIP, currentOnPingIP,
                   ipToPingChan, ipToTraceChan, outputsTitleChan,
                   focusedIPChan, outputsDataChan, outputsStatsChan, exit, wg,
                   userEvents, sched, ctxDone, probes, views, panicked,
                   inputs, lastReq>>

\* addNewIP: dbs.addStats(ip), and on to the next entry
addNewIPStats ==
    /\ Running /\ ui.pc = "addStats"
    /\ stats' = addStats(dbs, ui.ip).stats
    /\ ui' = [ui EXCEPT !.pc = "add", !.ip = NoIP, !.i = @ + 1]
    /\ UNCHANGED <<ips, configs, viewIPs, cursor, statsData, focusedIP,
                   currentOnPingIP, ipToPingChan, ipToTraceChan,
                   outputsTitleChan, focusedIPChan, outputsDataChan,
                   outputsStatsChan, exit, wg, userEvents, sched, ctxDone,
                   probes, views, panicked, inputs, lastReq>>

\* processInput of the "deleteIP" box on a buffer that is not blank:
\* deleteOneMoreIPs splits it at the commas and loops over the entries
processInputDelete(buffer) ==
    /\ Running /\ ui.pc = "idle" /\ inputs < MaxInputs
    /\ TrimSpace(buffer) # EmptyStr
    /\ ui' = [At("delete", "delete", NoIP) EXCEPT
                 !.list = Split(buffer, ","), !.i = 1]
    /\ inputs' = inputs + 1
    /\ UNCHANGED <<ips, configs, stats, viewIPs, cursor, statsData, focusedIP,
                   currentOnPingIP, ipToPingChan, ipToTraceChan,
                   outputsTitleChan, focusedIPChan, outputsDataChan,
                   outputsStatsChan, exit, wg, userEvents, sched, ctxDone,
                   probes, views, panicked, lastReq>>

\* deleteOneMoreIPs on the current entry: an entry equal to currentOnPingIP
\* is passed over; deleteIP trims it, returns when it is not valid or not
\* stored, and else removes it from the set of addresses
deleteIPStart ==
    /\ Running /\ ui.pc = "delete" /\ ui.i <= Len(ui.list)
    /\ LET raw == ui.list[ui.i]
           ip  == TrimSpace(raw)
       IN  IF raw = currentOnPingIP \/ ~isValidIP(ip) \/ ~isExistsIP(dbs, ip)
           THEN /\ ui' = [ui EXCEPT !.i = @ + 1]
                /\ UNCHANGED ips
           ELSE /\ ips' = ips \ {ip}
                /\ ui' = [ui EXCEPT !.pc = "deleteConfig", !.ip = ip]
    /\ UNCHANGED <<configs, stats, viewIPs, cursor, statsData, focusedIP,
                   currentOnPingIP, ipToPingChan, ipToTraceChan,
                   outputsTitleChan, focusedIPChan, outputsDataChan,
                   outputsStatsChan, exit, wg, userEvents, sched, ctxDone,
                   probes, views, panicked, inputs, lastReq>>

\* a deleteIP that leaves the statistics record behind
deleteIPStatsNothing ==
    /\ Running /\ ui.pc = "deleteStats"
    /\ ui' = [ui EXCEPT !.pc = "delete", !.ip = NoIP, !.i = @ + 1]
    /\ UNCHANGED <<ips, configs, stats, viewIPs, cursor, statsData, focusedIP,
                   currentOnPingIP, ipToPingChan, ipToTraceChan,
                   outputsTitleChan, focusedIPChan, outputsDataChan,
                   outputsStatsChan, exit, wg, userEvents, sched, ctxDone,
                   probes, views, panicked, inputs, lastReq>>

\* deleteIP: delete(db.configs, ip). A runner that got this record from
\* getConfig keeps it, detached from the store.
deleteIPConfig ==
    /\ Running /\ ui.pc = "deleteConfig"
    /\ configs' = MapDelete(configs, ui.ip)
    /\ probes' = [p \in DOMAIN probes |->
                     IF probes[p].ip = ui.ip /\ probes[p].cfg # Nil
                     THEN [probes[p] EXCEPT !.detached = TRUE]
                     ELSE probes[p]]
    /\ ui' = [ui EXCEPT !.pc = "deleteStats"]
    /\ UNCHANGED <<ips, stats, viewIPs, cursor, statsData, focusedIP, currentOnPingIP,
                   ipToPingChan, ipToTraceChan, outputsTitleChan,
                   focusedIPChan, outputsDataChan, outputsStatsChan, exit, wg,
                   userEvents, sched, ctxDone, views, panicked,
                   inputs, lastReq>>

\* deleteIP: delete(db.stats, ip), and on to the next entry
deleteIPStats ==
    /\ Running /\ ui.pc = "deleteStats"
    /\ stats' = MapDelete(stats, ui.ip)
    /\ ui' = [ui EXCEPT !.pc = "delete", !.ip = NoIP, !.i = @ + 1]
    /\ UNCHANGED <<ips, configs, viewIPs, cursor, statsData, focusedIP,
                   currentOnPingIP, ipToPingChan, ipToTraceChan,
                   outputsTitleChan, focusedIPChan, outputsDataChan,
                   outputsStatsChan, exit, wg, userEvents, sched, ctxDone,
                   probes, views, panicked, inputs, lastReq>>

\* processInput after the loop: the input box is closed and
\* g.Update(updateIPsView) queues the refresh of the list
processInputDone ==
    /\ Running /\ ui.pc \in {"add", "delete"} /\ ui.i > Len(ui.list)
    /\ userEvents' = userEvents (+) SetToBag({Event("ips", EmptyStr)})
    /\ ui' = Idle
    /\ UNCHANGED <<ips, configs, stats, viewIPs, cursor, statsData, focusedIP,
                   currentOnPingIP, ipToPingChan, ipToTraceChan,
                   outputsTitleChan, focusedIPChan, outputsDataChan,
                   outputsStatsChan, exit, wg, sched, ctxDone, probes, views,
                   panicked, inputs, lastReq>>

\* the user event updateIPsView: the view shows getAllIPs()
updateIPsView ==
    /\ Running /\ ui.pc = "idle"
    /\ BagIn(Event("ips", EmptyStr), userEvents)
    /\ userEvents' = userEvents (-) SetToBag({Event("ips", EmptyStr)})
    /\ viewIPs' = getAllIPs(dbs)
    /\ UNCHANGED <<ips, configs, stats, cursor, statsData, focusedIP, currentOnPingIP, ipToPingChan,
                   ipToTraceChan, outputsTitleChan, focusedIPChan,
                   outputsDataChan, outputsStatsChan, ui, panicked, inputs,
                   lastReq>>
    /\ UIUnchanged

\* a user event queued by updateStatsView: buildStats(data), and
\* formatIPStats(ip) when it reports a change. The closure reads data when
\* it runs, which is the line updateStatsView received last.
statsEvent ==
    /\ Running /\ ui.pc = "idle"
    /\ BagIn(Event("stats", EmptyStr), userEvents)
    /\ userEvents' = userEvents (-) SetToBag({Event("stats", EmptyStr)})
    /\ LET r == buildStats(dbs, statsData)
       IN  /\ panicked' = r.panic
           /\ stats' = r.stats
    /\ UNCHANGED <<ips, configs, viewIPs, cursor, statsData, focusedIP, currentOnPingIP,
                   ipToPingChan, ipToTraceChan, outputsTitleChan,
                   focusedIPChan, outputsDataChan, outputsStatsChan, ui,
                   inputs, lastReq>>
    /\ UIUnchanged

\* close(exit) on the main goroutine, which then goes on to wg.Wait();
\* closing a channel that is already closed panics
closeExit ==
    /\ exit' = TRUE
    /\ panicked' = exit
    /\ ui' = At(IF exit THEN "close" ELSE "wait", "", NoIP)

\* a quit that returns nil: exit is closed and MainLoop keeps running
quitReturnsNil ==
    /\ Running /\ ui.pc = "idle" /\ inputs < MaxInputs
    /\ exit' = TRUE
    /\ panicked' = exit
    /\ ui' = IF exit THEN At("close", "", NoIP) ELSE Idle
    /\ inputs' = inputs + 1
    /\ UNCHANGED <<ips, configs, stats, viewIPs, cursor, statsData, focusedIP, currentOnPingIP,
                   ipToPingChan, ipToTraceChan, outputsTitleChan,
                   focusedIPChan, outputsDataChan, outputsStatsChan, wg,
                   userEvents, sched, ctxDone, probes, views, lastReq>>

\* quit: close(exit), and MainLoop returns ErrQuit to main, which goes on to
\* wg.Wait()
quit ==
    /\ Running /\ ui.pc = "idle" /\ inputs < MaxInputs
    /\ closeExit
    /\ inputs' = inputs + 1
    /\ UNCHANGED <<ips, configs, stats, viewIPs, cursor, statsData, focusedIP, currentOnPingIP,
                   ipToPingChan, ipToTraceChan, outputsTitleChan,
                   focusedIPChan, outputsDataChan, outputsStatsChan, wg,
                   userEvents, sched, ctxDone, probes, views, lastReq>>

\* a handler, a queued closure or the layout returns an error other than
\* ErrQuit on an event: MainLoop returns it and main runs close(exit), logs
\* and goes on to wg.Wait()
mainLoopError ==
    /\ Running /\ ui.pc = "idle" /\ inputs < MaxInputs
    /\ closeExit
    /\ inputs' = inputs + 1
    /\ UNCHANGED <<ips, configs, stats, viewIPs, cursor, statsData, focusedIP, currentOnPingIP,
                   ipToPingChan, ipToTraceChan, outputsTitleChan,
                   focusedIPChan, outputsDataChan, outputsStatsChan, wg,
                   userEvents, sched, ctxDone, probes, views, lastReq>>

\* wg.Wait() returns and main returns: the program ends
mainExit ==
    /\ Running /\ ui.pc = "wait" /\ wg = 0
    /\ ui' = [ui EXCEPT !.pc = "exited"]
    /\ UNCHANGED <<ips, configs, stats, viewIPs, cursor, statsData, focusedIP, currentOnPingIP, ipToPingChan,
                   ipToTraceChan, outputsTitleChan, focusedIPChan,
                   outputsDataChan, outputsStatsChan, exit, wg, userEvents,
                   sched, ctxDone, probes, views, panicked, inputs,
                   lastReq>>

(***************************************************************************)
(* The scheduler goroutine. Its two sends on the unbuffered channels       *)
(* clearOutputsViewChan and clearStatsViewChan complete when the view loop *)
(* receives; stopProcessingChan is received from the blocked handler.      *)
(***************************************************************************)
\* the record of a runner goroutine at its go statement; data is the line
\* its reader holds from its read to its last send, cfg the record
\* buildPingCommand got from getConfig, and detached tells that the store
\* has dropped that record since
NewProbe(ip, mode, ctx) ==
    [ip |-> ip, mode |-> mode, ctx |-> ctx, runner |-> "start",
     proc |-> "none", waiter |-> "none", reader |-> "none",
     threshold |-> EmptyStr, pipe |-> << >>, pipeOpen |-> TRUE,
     data |-> EmptyStr, cfg |-> Nil, detached |-> FALSE]

\* the ping case without its cancel()
schedulerPingNoCancel ==
    /\ Running /\ sched.pc = "select" /\ ipToPingChan # << >>
    /\ ipToPingChan' = Tail(ipToPingChan)
    /\ sched' = [sched EXCEPT !.pc = "clearOutputs", !.mode = "ping",
                              !.ip = Head(ipToPingChan)]
    /\ UNCHANGED <<ips, configs, stats, viewIPs, cursor, statsData, focusedIP, currentOnPingIP,
                   ipToTraceChan, outputsTitleChan, focusedIPChan,
                   outputsDataChan, outputsStatsChan, exit, wg, ui, userEvents,
                   ctxDone, probes, views, panicked, inputs, lastReq>>

\* case ip := <-ipToPingChan: cancel(), then on to the first send
schedulerPing ==
    /\ Running /\ sched.pc = "select" /\ ipToPingChan # << >>
    /\ ipToPingChan' = Tail(ipToPingChan)
    /\ ctxDone' = Cancel(ctxDone, sched.cancel)
    /\ sched' = [sched EXCEPT !.pc = "clearOutputs", !.mode = "ping",
                              !.ip = Head(ipToPingChan)]
    /\ UNCHANGED <<ips, configs, stats, viewIPs, cursor, statsData, focusedIP, currentOnPingIP,
                   ipToTraceChan, outputsTitleChan, focusedIPChan,
                   outputsDataChan, outputsStatsChan, exit, wg, ui, userEvents,
                   probes, views, panicked, inputs, lastReq>>

\* the traceroute case without its cancel()
schedulerTraceNoCancel ==
    /\ Running /\ sched.pc = "select" /\ ipToTraceChan # << >>
    /\ ipToTraceChan' = Tail(ipToTraceChan)
    /\ sched' = [sched EXCEPT !.pc = "clearOutputs", !.mode = "trace",
                              !.ip = Head(ipToTraceChan)]
    /\ UNCHANGED <<ips, configs, stats, viewIPs, cursor, statsData, focusedIP, currentOnPingIP,
                   ipToPingChan, outputsTitleChan, focusedIPChan,
                   outputsDataChan, outputsStatsChan, exit, wg, ui, userEvents,
                   ctxDone, probes, views, panicked, inputs, lastReq>>

\* case ip := <-ipToTraceChan: cancel(), then on to the first send
schedulerTrace ==
    /\ Running /\ sched.pc = "select" /\ ipToTraceChan # << >>
    /\ ipToTraceChan' = Tail(ipToTraceChan)
    /\ ctxDone' = Cancel(ctxDone, sched.cancel)
    /\ sched' = [sched EXCEPT !.pc = "clearOutputs", !.mode = "trace",
                              !.ip = Head(ipToTraceChan)]
    /\ UNCHANGED <<ips, configs, stats, viewIPs, cursor, statsData, focusedIP, currentOnPingIP,
                   ipToPingChan, outputsTitleChan, focusedIPChan,
                   outputsDataChan, outputsStatsChan, exit, wg, ui, userEvents,
                   probes, views, panicked, inputs, lastReq>>

\* case <-stopProcessingChan: the send of the handler stopCurrentProcessing
\* completes
schedulerStop ==
    /\ Running /\ sched.pc = "select" /\ ui.pc = "stop"
    /\ sched' = [sched EXCEPT !.pc = "cancel"]
    /\ ui' = [ui EXCEPT !.pc = "stopped"]
    /\ UNCHANGED <<ips, configs, stats, viewIPs, cursor, statsData, focusedIP,
                   currentOnPingIP, ipToPingChan, ipToTraceChan,
                   outputsTitleChan, focusedIPChan, outputsDataChan,
                   outputsStatsChan, exit, wg, userEvents, ctxDone, probes,
                   views, panicked, inputs, lastReq>>

\* case <-stopProcessingChan: cancel()
schedulerStopCancel ==
    /\ Running /\ sched.pc = "cancel"
    /\ ctxDone' = Cancel(ctxDone, sched.cancel)
    /\ sched' = [sched EXCEPT !.pc = "select"]
    /\ UNCHANGED <<ips, configs, stats, viewIPs, cursor, statsData, focusedIP,
                   currentOnPingIP, ipToPingChan, ipToTraceChan,
                   outputsTitleChan, focusedIPChan, outputsDataChan,
                   outputsStatsChan, exit, wg, ui, userEvents, probes, views,
                   panicked, inputs, lastReq>>

\* case <-exit: cancel(); return (wg.Done() is deferred)
schedulerExit ==
    /\ Running /\ sched.pc = "select" /\ exit
    /\ ctxDone' = Cancel(ctxDone, sched.cancel)
    /\ sched' = [sched EXCEPT !.pc = "done"]
    /\ wg' = wg - 1
    /\ UNCHANGED <<ips, configs, stats, viewIPs, cursor, statsData, focusedIP, currentOnPingIP, ipToPingChan,
                   ipToTraceChan, outputsTitleChan, focusedIPChan,
                   outputsDataChan, outputsStatsChan, exit, ui, userEvents,
                   probes, views, panicked, inputs, lastReq>>

(***************************************************************************)
(* The view-update loops.                                                  *)
(***************************************************************************)
ViewUnchanged ==
    UNCHANGED <<ips, configs, stats, viewIPs, cursor, currentOnPingIP, ipToPingChan,
                ipToTraceChan, exit, ui, panicked, inputs, lastReq>>

\* updateConfigView, case ip = <-focusedIPChan: g.Update(...). ip is
\* declared outside the loop: the receive overwrites the variable that the
\* closures queued before still refer to.
configViewFocus ==
    /\ Running /\ views["config"] = "run" /\ focusedIPChan # << >>
    /\ focusedIPChan' = Tail(focusedIPChan)
    /\ focusedIP' = Head(focusedIPChan)
    /\ userEvents' = userEvents (+) SetToBag({Event("config", EmptyStr)})
    /\ UNCHANGED <<ips, configs, stats, viewIPs, cursor, statsData, currentOnPingIP,
                   ipToPingChan, ipToTraceChan, outputsTitleChan,
                   outputsDataChan, outputsStatsChan, exit, wg, ui, sched,
                   ctxDone, probes, views, panicked, inputs, lastReq>>

\* a user event queued by updateConfigView: formatIPConfig(ip) reads the
\* fields of getConfig(ip) and panics on nil. The closure reads ip when it
\* runs, which is the address updateConfigView received last.
configEvent ==
    /\ Running /\ ui.pc = "idle"
    /\ BagIn(Event("config", EmptyStr), userEvents)
    /\ userEvents' = userEvents (-) SetToBag({Event("config", EmptyStr)})
    /\ panicked' = (getConfig(dbs, focusedIP) = Nil)
    /\ UNCHANGED <<ips, configs, stats, viewIPs, cursor, statsData, focusedIP,
                   currentOnPingIP, ipToPingChan, ipToTraceChan,
                   outputsTitleChan, focusedIPChan, outputsDataChan,
                   outputsStatsChan, exit, wg, ui, sched, ctxDone, probes,
                   views, inputs, lastReq>>

\* updateConfigView, updateOutputsView, updateStatsView, case <-exit: return
viewExit(l) ==
    /\ Running /\ views[l] = "run" /\ exit
    /\ views' = [views EXCEPT ![l] = "done"]
    /\ wg' = wg - 1
    /\ UNCHANGED <<statsData, focusedIP, outputsTitleChan, focusedIPChan, outputsDataChan,
                   outputsStatsChan, userEvents, sched, ctxDone, probes>>
    /\ ViewUnchanged

\* updateOutputsView, case output = <-outputsDataChan: print the line
outputsViewData ==
    /\ Running /\ views["outputs"] = "run" /\ outputsDataChan # << >>
    /\ outputsDataChan' = Tail(outputsDataChan)
    /\ UNCHANGED <<statsData, focusedIP, outputsTitleChan, focusedIPChan, outputsStatsChan, wg,
                   userEvents, sched, ctxDone, probes, views>>
    /\ ViewUnchanged

\* updateOutputsView, case title := <-outputsTitleChan: set the title
outputsViewTitle ==
    /\ Running /\ views["outputs"] = "run" /\ outputsTitleChan # << >>
    /\ outputsTitleChan' = Tail(outputsTitleChan)
    /\ UNCHANGED <<statsData, focusedIP, focusedIPChan, outputsDataChan, outputsStatsChan, wg,
                   userEvents, sched, ctxDone, probes, views>>
    /\ ViewUnchanged

\* updateOutputsView, case <-clearOutputsViewChan: the scheduler's send
\* clearOutputsViewChan <- struct{}{} completes
outputsViewClear ==
    /\ Running /\ views["outputs"] = "run" /\ sched.pc = "clearOutputs"
    /\ sched' = [sched EXCEPT !.pc = "clearStats"]
    /\ UNCHANGED <<statsData, focusedIP, outputsTitleChan, focusedIPChan, outputsDataChan,
                   outputsStatsChan, wg, userEvents, ctxDone, probes, views>>
    /\ ViewUnchanged

\* updateStatsView, case data = <-outputsStatsChan: g.Update(...). data is
\* declared outside the loop: the receive overwrites the variable that the
\* closures queued before still refer to.
statsViewData ==
    /\ Running /\ views["stats"] = "run" /\ outputsStatsChan # << >>
    /\ outputsStatsChan' = Tail(outputsStatsChan)
    /\ statsData' = Head(outputsStatsChan)
    /\ userEvents' = userEvents (+) SetToBag({Event("stats", EmptyStr)})
    /\ UNCHANGED <<focusedIP, outputsTitleChan, focusedIPChan, outputsDataChan,
                   wg, sched, ctxDone, probes, views>>
    /\ ViewUnchanged

\* updateStatsView, case <-clearStatsViewChan: the scheduler's send
\* clearStatsViewChan <- struct{}{} completes
statsViewClear ==
    /\ Running /\ views["stats"] = "run" /\ sched.pc = "clearStats"
    /\ sched' = [sched EXCEPT !.pc = "launch"]
    /\ UNCHANGED <<statsData, focusedIP, outputsTitleChan, focusedIPChan, outputsDataChan,
                   outputsStatsChan, wg, userEvents, ctxDone, probes, views>>
    /\ ViewUnchanged

\* the scheduler after its two sends:
\* ctx, cancel = context.WithCancel(...); go executePing / executeTraceroute
schedulerLaunch ==
    /\ Running /\ sched.pc = "launch"
    /\ ctxDone' = WithCancel(ctxDone)
    /\ LET ctx == Cardinality(DOMAIN ctxDone)
       IN  /\ probes' = Append(probes, NewProbe(sched.ip, sched.mode, ctx))
           /\ sched' = [pc |-> "select", mode |-> "", ip |-> NoIP, cancel |-> ctx]
    /\ UNCHANGED <<ips, configs, stats, viewIPs, cursor, statsData, focusedIP, currentOnPingIP, ipToPingChan,
                   ipToTraceChan, outputsTitleChan, focusedIPChan,
                   outputsDataChan, outputsStatsChan, exit, wg, ui, userEvents,
                   views, panicked, inputs, lastReq>>

(***************************************************************************)
(* One probe: the runner goroutine (executePing / executeTraceroute), the  *)
(* OS process, the goroutine exec starts to kill the process when the      *)
(* context is cancelled, the waiter goroutine (done <- cmd.Wait()) and the *)
(* line reader goroutine.                                                  *)
(***************************************************************************)
Probes == 1..Len(probes)

ProbeUnchanged ==
    UNCHANGED <<ips, stats, viewIPs, cursor, statsData, focusedIP, currentOnPingIP, ipToPingChan,
                ipToTraceChan, outputsTitleChan, focusedIPChan, exit, wg, ui,
                userEvents, sched, ctxDone, views, inputs, lastReq>>

ProcDead(p) == probes[p].proc = "dead"

\* buildPingCommand's cfg := dbs.getConfig(ip): the runner of a ping takes
\* the record of its address, or nil, under cfglock and releases the lock
runnerGetConfig(p) ==
    /\ Running /\ probes[p].runner = "start" /\ probes[p].mode = "ping"
    /\ probes' = [probes EXCEPT ![p].runner = "build",
                                ![p].cfg = getConfig(dbs, probes[p].ip)]
    /\ UNCHANGED <<configs, outputsDataChan, outputsStatsChan, panicked>>
    /\ ProbeUnchanged

\* a runner that starts its line reader although the start failed
runnerStartReaderAnyway(p, now, started) ==
    /\ Running
    /\ \/ probes[p].runner = "start" /\ probes[p].mode = "trace"
       \/ probes[p].runner = "build"
    /\ LET pr   == probes[p]
           ping == pr.mode = "ping"
       IN  IF ping /\ pr.cfg = Nil
           THEN /\ panicked' = TRUE
                /\ UNCHANGED <<configs, probes>>
           ELSE /\ panicked' = FALSE
                /\ configs' = IF ping /\ ~pr.detached
                              THEN [configs EXCEPT ![pr.ip].start = now]
                              ELSE configs
                /\ probes' =
                     IF started /\ ~ctxDone[pr.ctx]
                     THEN [probes EXCEPT ![p].runner = "select",
                                         ![p].proc = "alive",
                                         ![p].waiter = "wait",
                                         ![p].reader = "read",
                                         ![p].threshold =
                                             IF ping
                                             THEN Itoa(pr.cfg.threshold)
                                             ELSE EmptyStr,
                                         ![p].cfg = Nil,
                                         ![p].detached = FALSE]
                     ELSE [probes EXCEPT ![p].runner = "done",
                                         ![p].reader = "read",
                                         ![p].cfg = Nil,
                                         ![p].detached = FALSE]
    /\ UNCHANGED <<outputsDataChan, outputsStatsChan>>
    /\ ProbeUnchanged

\* executePing / executeTraceroute up to the select. A ping runner goes on
\* in buildPingCommand with cfg.start = now, written without the lock to
\* the record it holds: it panics on a nil cfg, and it writes to a record
\* the store no longer has when deleteIP ran in between. cmd.Start() fails
\* when the context is already cancelled, and StdoutPipe or Start can fail
\* for reasons of the host (started = FALSE); then the runner returns.
\* Otherwise the process runs and the waiter and the reader are started.
runnerStart(p, now, started) ==
    /\ Running
    /\ \/ probes[p].runner = "start" /\ probes[p].mode = "trace"
       \/ probes[p].runner = "build"
    /\ LET pr   == probes[p]
           ping == pr.mode = "ping"
       IN  IF ping /\ pr.cfg = Nil
           THEN /\ panicked' = TRUE
                /\ UNCHANGED <<configs, probes>>
           ELSE /\ panicked' = FALSE
                /\ configs' = IF ping /\ ~pr.detached
                              THEN [configs EXCEPT ![pr.ip].start = now]
                              ELSE configs
                /\ probes' =
                     IF started /\ ~ctxDone[pr.ctx]
                     THEN [probes EXCEPT ![p].runner = "select",
                                         ![p].proc = "alive",
                                         ![p].waiter = "wait",
                                         ![p].reader = "read",
                                         ![p].threshold =
                                             IF ping
                                             THEN Itoa(pr.cfg.threshold)
                                             ELSE EmptyStr,
                                         ![p].cfg = Nil,
                                         ![p].detached = FALSE]
                     ELSE [probes EXCEPT ![p].runner = "done",
                                         ![p].cfg = Nil,
                                         ![p].detached = FALSE]
    /\ UNCHANGED <<outputsDataChan, outputsStatsChan>>
    /\ ProbeUnchanged

\* the runner's select, case <-ctx.Done(): return
runnerCtxDone(p) ==
    /\ Running /\ probes[p].runner = "select" /\ ctxDone[probes[p].ctx]
    /\ probes' = [probes EXCEPT ![p].runner = "done"]
    /\ UNCHANGED <<configs, outputsDataChan, outputsStatsChan, panicked>>
    /\ ProbeUnchanged

\* the runner's select, case <-done: the waiter's send completes, both return
runnerDone(p) ==
    /\ Running /\ probes[p].runner = "select" /\ probes[p].waiter = "send"
    /\ probes' = [probes EXCEPT ![p].runner = "done", ![p].waiter = "done"]
    /\ UNCHANGED <<configs, outputsDataChan, outputsStatsChan, panicked>>
    /\ ProbeUnchanged

\* the process writes one line to its standard output
processWrite(p, line) ==
    /\ Running /\ probes[p].proc = "alive" /\ inputs < MaxInputs
    /\ probes' = [probes EXCEPT ![p].pipe = Append(@, line)]
    /\ inputs' = inputs + 1
    /\ UNCHANGED <<ips, configs, stats, viewIPs, cursor, statsData, focusedIP, currentOnPingIP, ipToPingChan,
                   ipToTraceChan, outputsTitleChan, focusedIPChan,
                   outputsDataChan, outputsStatsChan, exit, wg, ui, userEvents,
                   sched, ctxDone, views, panicked, lastReq>>

\* the process ends by itself: cmd.Wait() returns in the waiter, which
\* closes the read end of the pipe and goes on to done <- err
processExit(p) ==
    /\ Running /\ probes[p].proc = "alive" /\ inputs < MaxInputs
    /\ probes' = [probes EXCEPT ![p].proc = "dead", ![p].waiter = "send",
                                ![p].pipeOpen = FALSE]
    /\ inputs' = inputs + 1
    /\ UNCHANGED <<ips, configs, stats, viewIPs, cursor, statsData, focusedIP,
                   currentOnPingIP, ipToPingChan, ipToTraceChan,
                   outputsTitleChan, focusedIPChan, outputsDataChan,
                   outputsStatsChan, exit, wg, ui, userEvents, sched, ctxDone,
                   views, panicked, lastReq>>

\* exec.CommandContext: once the context is done the process is killed, and
\* cmd.Wait() returns in the waiter as in processExit
processKill(p) ==
    /\ Running /\ probes[p].proc = "alive" /\ ctxDone[probes[p].ctx]
    /\ probes' = [probes EXCEPT ![p].proc = "dead", ![p].waiter = "send",
                                ![p].pipeOpen = FALSE]
    /\ UNCHANGED <<configs, outputsDataChan, outputsStatsChan, panicked>>
    /\ ProbeUnchanged

\* a reader that sends the statistics line in both modes
readerReadStatsAlways(p) ==
    /\ Running /\ probes[p].reader = "read" /\ probes[p].pipe # << >>
    /\ LET pr   == probes[p]
           data == TrimSpace(Head(pr.pipe))
       IN  probes' =
               IF pr.mode = "ping" /\ data = EmptyStr
               THEN [probes EXCEPT ![p].pipe = Tail(@)]
               ELSE [probes EXCEPT ![p].pipe = Tail(@),
                                   ![p].reader = "sendStats",
                                   ![p].data = data]
    /\ UNCHANGED <<configs, outputsDataChan, outputsStatsChan, panicked>>
    /\ ProbeUnchanged

\* one turn of the reader's loop on a line the pipe (or the bufio buffer)
\* holds: data, _ := reader.ReadString('\n'), trimmed. A ping reader goes
\* back to read on a blank line, and else on to its send on
\* outputsStatsChan; a traceroute reader goes straight to its send on
\* outputsDataChan.
readerRead(p) ==
    /\ Running /\ probes[p].reader = "read" /\ probes[p].pipe # << >>
    /\ LET pr   == probes[p]
           data == TrimSpace(Head(pr.pipe))
       IN  probes' =
               IF pr.mode = "ping" /\ data = EmptyStr
               THEN [probes EXCEPT ![p].pipe = Tail(@)]
               ELSE [probes EXCEPT ![p].pipe = Tail(@),
                                   ![p].reader =
                                       IF pr.mode = "ping" THEN "sendStats"
                                       ELSE "sendData",
                                   ![p].data = data]
    /\ UNCHANGED <<configs, outputsDataChan, outputsStatsChan, panicked>>
    /\ ProbeUnchanged

\* the ping reader's send outputsStatsChan <- ip + "@" + threshold + "@" + data
readerSendStats(p) ==
    /\ Running /\ probes[p].reader = "sendStats"
    /\ CanSend(outputsStatsChan, LargeCap)
    /\ outputsStatsChan' =
          Send(outputsStatsChan,
               probes[p].ip \o <<"@">> \o probes[p].threshold \o <<"@">>
                   \o probes[p].data)
    /\ probes' = [probes EXCEPT ![p].reader = "sendData"]
    /\ UNCHANGED <<configs, outputsDataChan, panicked>>
    /\ ProbeUnchanged

\* the reader's send outputsDataChan <- data, and back to read
readerSendData(p) ==
    /\ Running /\ probes[p].reader = "sendData"
    /\ CanSend(outputsDataChan, LargeCap)
    /\ outputsDataChan' = Send(outputsDataChan, probes[p].data)
    /\ probes' = [probes EXCEPT ![p].reader = "read", ![p].data = EmptyStr]
    /\ UNCHANGED <<configs, outputsStatsChan, panicked>>
    /\ ProbeUnchanged

\* reader.ReadString('\n') returns an error and the reader returns: end of
\* file once the process is gone and the pipe is drained, or a read on the
\* pipe cmd.Wait() closed
readerEnd(p) ==
    /\ Running /\ probes[p].reader = "read"
    /\ \/ ~probes[p].pipeOpen
       \/ probes[p].pipe = << >> /\ ProcDead(p)
    /\ probes' = [probes EXCEPT ![p].reader = "done"]
    /\ UNCHANGED <<configs, outputsDataChan, outputsStatsChan, panicked>>
    /\ ProbeUnchanged

(***************************************************************************)
(* The program.                                                            *)
(***************************************************************************)
Next ==
    \/ \E ip \in Addrs : addPing(ip)
    \/ addPingIP
    \/ addPingFocus
    \/ \E ip \in Addrs : addTraceroute(ip)
    \/ addTracerouteIP
    \/ ipsMoveCursorDown
    \/ ipsMoveCursorUp
    \/ \E input \in SearchInputs : searchAndFocusIP(input)
    \/ stopCurrentProcessing
    \/ stopCurrentProcessingReturn
    \/ \E buffer \in InputBuffers : processInputAdd(buffer)
    \/ \E content \in FileContents : processInputFiles(content)
    \/ addNewIPStart
    \/ addNewIPConfig
    \/ addNewIPStats
    \/ \E buffer \in InputBuffers : processInputDelete(buffer)
    \/ deleteIPStart
    \/ deleteIPConfig
    \/ deleteIPStats
    \/ processInputDone
    \/ updateIPsView
    \/ configEvent
    \/ statsEvent
    \/ quit
    \/ mainLoopError
    \/ mainExit
    \/ schedulerPing
    \/ schedulerTrace
    \/ schedulerStop
    \/ schedulerStopCancel
    \/ schedulerExit
    \/ schedulerLaunch
    \/ configViewFocus
    \/ \E l \in Loops : viewExit(l)
    \/ outputsViewData
    \/ outputsViewTitle
    \/ outputsViewClear
    \/ statsViewData
    \/ statsViewClear
    \/ \E p \in Probes : runnerGetConfig(p)
    \/ \E p \in Probes, now \in LaunchTimes, started \in BOOLEAN :
          runnerStart(p, now, started)
    \/ \E p \in Probes : runnerCtxDone(p)
    \/ \E p \in Probes : runnerDone(p)
    \/ \E p \in Probes, line \in OutputLines : processWrite(p, line)
    \/ \E p \in Probes : processExit(p)
    \/ \E p \in Probes : processKill(p)
    \/ \E p \in Probes : readerRead(p)
    \/ \E p \in Probes : readerSendStats(p)
    \/ \E p \in Probes : readerSendData(p)
    \/ \E p \in Probes : readerEnd(p)

Spec == Init /\ [][Next]_vars

(***************************************************************************)
(* Properties. A context is live while it is not cancelled; a probe is     *)
(* active while its process runs under a live context.                     *)
(***************************************************************************)
Contexts == DOMAIN ctxDone

LiveContexts == {i \in Contexts : ~ctxDone[i]}

AliveProbes == {p \in Probes : probes[p].proc = "alive"}

ActiveProbes == {p \in AliveProbes : ~ctxDone[probes[p].ctx]}

Launching == Len(probes') = Len(probes) + 1

Stored(ip) == ip \in ips /\ ip \in DOMAIN configs /\ ip \in DOMAIN stats

\* C1: in every reachable state at most one of the contexts the scheduler
\* has created is not cancelled, so a freshly created context is the only
\* live one.
C1_OneLiveScope == Cardinality(LiveContexts) <= 1

\* the second probe holds the live context, the first one's is cancelled
C1_Witness ==
    /\ Len(probes) >= 2
    /\ ctxDone[probes[1].ctx]
    /\ ~ctxDone[probes[2].ctx]

\* C2 as stated: at no reachable state are two probe processes alive at the
\* same time.
C2_OneProcessAlive == Cardinality(AliveProbes) <= 1

\* C2 amended: a process alive next to the latest probe's belongs to a
\* cancelled context (its kill is pending), so no two alive processes run
\* under live contexts.
C2_OldProcessCancelled ==
    \A p \in AliveProbes : p # Len(probes) => ctxDone[probes[p].ctx]

\* the old process is still alive, cancelled, while the new one runs
C2_Witness ==
    /\ Len(probes) >= 2
    /\ probes[1].proc = "alive" /\ ctxDone[probes[1].ctx]
    /\ probes[2].proc = "alive" /\ ~ctxDone[probes[2].ctx]

\* C3: at every step that starts a runner, in the ping and in the
\* traceroute case, every context created before is cancelled already in
\* the state the step starts from.
C3_CancelBeforeStart ==
    [][Launching => \A i \in Contexts : ctxDone[i]]_vars

\* a ping runner was started after a traceroute runner, and a traceroute
\* runner after a ping runner
C3_Witness ==
    /\ Len(probes) = 3
    /\ probes[1].mode = "trace"
    /\ probes[2].mode = "ping"
    /\ probes[3].mode = "trace"

\* both requests are handled: no handler is blocked, no request is queued
\* and the scheduler is back at its select
Handled ==
    /\ ui.pc = "idle"
    /\ ipToPingChan = << >> /\ ipToTraceChan = << >>
    /\ sched.pc = "select"

\* C4: once every start request is handled, the latest probe started is
\* the one of the last request issued, address and mode, and its context is
\* live.
C4_LastRequestWins ==
    (Handled /\ lastReq.kind \in {"ping", "trace"}) =>
        /\ Len(probes) > 0
        /\ probes[Len(probes)].ip = lastReq.ip
        /\ probes[Len(probes)].mode = lastReq.kind
        /\ ~ctxDone[probes[Len(probes)].ctx]

\* C5: while the stop is the last request issued, after
\* stopCurrentProcessing returned and the scheduler ran the cancel() of its
\* stop case, every context is cancelled: the current scope is cancelled
\* and no runner was launched since.
C5_StopLeadsToIdle ==
    (lastReq.kind = "stop" /\ sched.pc # "cancel") => LiveContexts = {}

\* C6: when wg.Wait() has returned, every probe's process, runner, waiter
\* and line reader have terminated.
C6_NoLeakAtExit ==
    ui.pc = "exited" =>
        \A p \in Probes :
            /\ probes[p].runner = "done"
            /\ probes[p].proc # "alive"
            /\ probes[p].waiter \in {"none", "done"}
            /\ probes[p].reader \in {"none", "done"}

\* C7: after exit is closed the program either has returned from wg.Wait()
\* or some goroutine can still take a step: shutdown never gets stuck with
\* wg.Wait() blocked.
C7_ShutdownCompletes ==
    (exit /\ ~panicked) => (ui.pc = "exited" \/ ENABLED Next)

\* C8: at the step that starts a ping runner for address b, the statistics
\* record of b is all zeros.
C8_StatsResetOnSchedule ==
    [][(Launching /\ sched.mode = "ping" /\ sched.ip \in DOMAIN stats')
          => stats'[sched.ip] = NewStat]_vars

\* C9: the statistics record of an address changes only while a ping
\* session on that address holds a live context, never after the switch to
\* another address or the stop.
C9_NoSampleAfterCancel ==
    [][\A a \in (DOMAIN stats) \cap (DOMAIN stats') :
          stats'[a] # stats[a] =>
              \E p \in Probes : /\ probes[p].ip = a
                                /\ probes[p].mode = "ping"
                                /\ ~ctxDone[probes[p].ctx]]_vars

\* C10: no step removes the address of an active probe, ping or
\* traceroute, from ips, configs, stats or the list.
C10_ActiveTargetKept ==
    [][\A p \in ActiveProbes :
          Stored(probes[p].ip) =>
              /\ probes[p].ip \in ips'
              /\ probes[p].ip \in DOMAIN configs'
              /\ probes[p].ip \in DOMAIN stats']_vars


(***************************************************************************)
(* The address store in the running program: the add and delete boxes     *)
(* with lists of entries, the pings that set currentOnPingIP and           *)
(* cfg.start, the stop, and the replies applied to the records. No         *)
(* traceroute, and exit stays open.                                        *)
(***************************************************************************)
\* what is typed into the boxes: one address, an address after a blank, a
\* list, a list that repeats an address, and a string that is no address
StoreBuffers ==
    {AddrA, <<" ">> \o AddrA, AddrB, AddrC,
     AddrA \o <<",">> \o AddrB,
     AddrA \o <<",">> \o AddrC,
     AddrC \o <<",">> \o AddrC,
     <<"x">>}

\* the program as main starts it
StoreInit == Init

\* the user adds and deletes addresses and starts and stops pings, and the
\* ping processes write replies
StoreNext ==
    \/ \E buffer \in StoreBuffers : processInputAdd(buffer)
    \/ addNewIPStart
    \/ addNewIPConfig
    \/ addNewIPStats
    \/ \E buffer \in StoreBuffers : processInputDelete(buffer)
    \/ deleteIPStart
    \/ deleteIPConfig
    \/ deleteIPStats
    \/ processInputDone
    \/ updateIPsView
    \/ \E ip \in ValidIPLiterals : addPing(ip)
    \/ addPingIP
    \/ addPingFocus
    \/ stopCurrentProcessing
    \/ stopCurrentProcessingReturn
    \/ configEvent
    \/ statsEvent
    \/ schedulerPing
    \/ schedulerStop
    \/ schedulerStopCancel
    \/ schedulerLaunch
    \/ configViewFocus
    \/ outputsViewData
    \/ outputsViewTitle
    \/ outputsViewClear
    \/ statsViewData
    \/ statsViewClear
    \/ \E p \in Probes : runnerGetConfig(p)
    \/ \E p \in Probes, now \in LaunchTimes, started \in BOOLEAN :
          runnerStart(p, now, started)
    \/ \E p \in Probes : runnerCtxDone(p)
    \/ \E p \in Probes : runnerDone(p)
    \/ \E p \in Probes, line \in OutputLines : processWrite(p, line)
    \/ \E p \in Probes : processExit(p)
    \/ \E p \in Probes : processKill(p)
    \/ \E p \in Probes : readerRead(p)
    \/ \E p \in Probes : readerSendStats(p)
    \/ \E p \in Probes : readerSendData(p)
    \/ \E p \in Probes : readerEnd(p)

StoreSpec == StoreInit /\ [][StoreNext]_vars

\* the main goroutine is not inside addNewIP or deleteIP
StoreAtRest ==
    ui.pc \notin {"addConfig", "addStats", "deleteConfig", "deleteStats"}

\* the handler of the add / delete box has gone through the entries of
\* buffer and stands at the end of its loop
HandlerDone(mode, buffer) ==
    /\ ui.pc = mode /\ ui.mode = mode
    /\ ui.list = Split(buffer, ",") /\ ui.i > Len(ui.list)


\* the addresses an add or delete request names, trimmed
Entries(buffer) ==
    LET fields == Split(buffer, ",")
    IN  {TrimSpace(fields[i]) : i \in 1..Len(fields)}

Occurrences(seq, x) == Cardinality({i \in 1..Len(seq) : seq[i] = x})

\* C11: addNewIP of a valid address not yet present leaves it exactly once
\* in getAllIPs, with the default config (start "n/a", the rest zero) and
\* the all-zero stat; and an add request leaves every valid address it
\* names present.
C11_AddCreatesDefaults ==
    StoreAtRest =>
        /\ \A a \in ValidIPLiterals \ ips :
              LET db == addNewIP(dbs, a)
              IN  /\ a \in db.ips
                  /\ Occurrences(getAllIPs(db), a) = 1
                  /\ getConfig(db, a) = NewConfig
                  /\ getStats(db, a) = NewStat
        /\ \A buffer \in StoreBuffers :
              \A a \in ValidIPLiterals \cap Entries(buffer) :
                  a \in addOneMoreIPs(dbs, buffer).ips

\* the add box has just added "::2", fresh, next to "::1" whose record
\* holds a sample
C11_Witness ==
    /\ HandlerDone("add", AddrC)
    /\ Occurrences(getAllIPs(dbs), AddrC) = 1
    /\ getConfig(dbs, AddrC) = NewConfig /\ getStats(dbs, AddrC) = NewStat
    /\ AddrA \in ips /\ stats[AddrA] # NewStat

\* C12: adding an address that is present, as typed or after a blank,
\* leaves ips, configs and stats as they are, and adding an address twice
\* in a row is adding it once.
C12_AddIdempotent ==
    StoreAtRest =>
        /\ \A a \in ips :
              /\ addNewIP(dbs, a) = dbs
              /\ addNewIP(dbs, <<" ">> \o a) = dbs
        /\ \A b \in ValidIPLiterals :
              addEach(dbs, <<b, b>>) = addNewIP(dbs, b)

\* the add box has gone through " ::1" while the config and the stat of
\* "::1" hold the start time and a sample of a ping, and they still do
C12_Witness ==
    /\ HandlerDone("add", <<" ">> \o AddrA)
    /\ AddrA \in ips
    /\ configs[AddrA] # NewConfig
    /\ stats[AddrA] # NewStat

\* C13: outside addNewIP and deleteIP, ips, configs and stats hold the same
\* keys.
C13_LockStep ==
    StoreAtRest =>
        /\ ips = DOMAIN configs
        /\ ips = DOMAIN stats

\* the delete box has gone through "::1,1.1.1.1" with a ping active on
\* "::1": "1.1.1.1" is gone, "::1" is kept
C13_Witness ==
    /\ HandlerDone("delete", AddrA \o <<",">> \o AddrB)
    /\ AddrB \notin ips /\ AddrB \notin DOMAIN configs
    /\ AddrA \in ips
    /\ currentOnPingIP = AddrA

\* C14: getAllIPs lists every stored address once, shorter addresses first
\* and addresses of the same length in byte order.
C14_ListOrder ==
    LET l == getAllIPs(dbs)
    IN  /\ Len(l) = Cardinality(ips)
        /\ {l[i] : i \in 1..Len(l)} = ips
        /\ \A i, j \in 1..Len(l) :
              i < j => \/ Len(l[i]) < Len(l[j])
                       \/ Len(l[i]) = Len(l[j]) /\ StrLess(l[i], l[j])

\* all three addresses are stored: "1.1.1.1" sorts first as a string and
\* is listed last
C14_Witness ==
    /\ ips = {AddrA, AddrB, AddrC}
    /\ SortStrings(ips) = <<AddrB, AddrA, AddrC>>
    /\ getAllIPs(dbs) = <<AddrA, AddrC, AddrB>>


(***************************************************************************)
(* One ping session alone: the ping of "::1" runs, the process writes      *)
(* lines, the reader sends them on, updateStatsView queues a closure for   *)
(* each and the main loop runs the closures. Nothing receives from         *)
(* outputsDataChan, so it holds the lines of the session in the order they *)
(* were read.                                                              *)
(***************************************************************************)
\* round-trip times of the replies, and thresholds of the pinged address
ReplyValues == {0, 10, 20, 30}
Thresholds == {0, 20}

\* "icmp time=<n> ms"
ReplyLine(n) ==
    <<"i", "c", "m", "p", " ", "t", "i", "m", "e", "=">> \o Itoa(n)
        \o <<" ", "m", "s">>

\* a line getResponseTime ignores: "--- ::1 ---"
LineHeader == <<"-", "-", "-", " ">> \o AddrA \o <<" ", "-", "-", "-">>

SessionLines == {ReplyLine(n) : n \in ReplyValues} \cup {LineFail, LineHeader}

\* a ping of AddrA is running with threshold t, nothing written yet
pingSession(t) ==
    LET db == addNewIP(newDatabases, AddrA)
    IN  /\ ips = db.ips
        /\ configs = [db.configs EXCEPT ![AddrA].threshold = t,
                                        ![AddrA].start = "10:00:00"]
        /\ stats = db.stats
        /\ viewIPs = <<AddrA>>
        /\ cursor = 0
        /\ statsData = EmptyStr
        /\ focusedIP = AddrA
        /\ currentOnPingIP = AddrA
        /\ ipToPingChan = << >>
        /\ ipToTraceChan = << >>
        /\ outputsTitleChan = << >>
        /\ focusedIPChan = << >>
        /\ outputsDataChan = << >>
        /\ outputsStatsChan = << >>
        /\ exit = FALSE
        /\ wg = WgInitial
        /\ ui = Idle
        /\ userEvents = EmptyBag
        /\ sched = [pc |-> "select", mode |-> "", ip |-> NoIP, cancel |-> 1]
        /\ ctxDone = [i \in {0, 1} |-> i = 0]
        /\ probes = <<[NewProbe(AddrA, "ping", 1) EXCEPT
                         !.runner = "select", !.proc = "alive",
                         !.waiter = "wait", !.reader = "read",
                         !.threshold = Itoa(t)]>>
        /\ views = [l \in Loops |-> "run"]
        /\ panicked = FALSE
        /\ inputs = 0
        /\ lastReq = [kind |-> "ping", ip |-> AddrA]

StatsInit == \E t \in Thresholds : pingSession(t)

StatsNext ==
    \/ \E p \in Probes, line \in SessionLines : processWrite(p, line)
    \/ \E p \in Probes : readerRead(p)
    \/ \E p \in Probes : readerSendStats(p)
    \/ \E p \in Probes : readerSendData(p)
    \/ statsViewData
    \/ statsEvent

StatsSpec == StatsInit /\ [][StatsNext]_vars

\* the replies of the session, the record and the threshold of the pinged
\* address
IsReply(line) == \E n \in ReplyValues : line = ReplyLine(n)

ValueOf(line) == CHOOSE n \in ReplyValues : line = ReplyLine(n)

Rec == stats[AddrA]

Thres == configs[AddrA].threshold

\* the step runs a closure queued by updateStatsView
StatsClosureRuns ==
    CopiesIn(Event("stats", EmptyStr), userEvents')
        < CopiesIn(Event("stats", EmptyStr), userEvents)

\* the line that closure hands to getResponseTime: the third field of data
AppliedLine == Split(statsData, "@")[3]

\* the step applies a reply to the record
AppliesReply == StatsClosureRuns /\ IsReply(AppliedLine)

\* the replies applied to the record since it was zeroed
Applied == Rec.match + Rec.above + Rec.under

\* C15: the first reply applied to a zeroed record sets min and max to its
\* round-trip time, and every later reply leaves min the smallest and max
\* the largest round-trip time so far, the value 0 included.
C15_MinMaxFold ==
    [][AppliesReply =>
          LET v == ValueOf(AppliedLine)
          IN  IF Applied = 0
              THEN stats'[AddrA].min = v /\ stats'[AddrA].max = v
              ELSE /\ stats'[AddrA].min = IF v < Rec.min THEN v ELSE Rec.min
                   /\ stats'[AddrA].max = IF v > Rec.max THEN v ELSE Rec.max
      ]_vars

\* C16: a reply applied to the record adds one to match, above or under,
\* as its round-trip time is equal to, greater than or smaller than the
\* threshold, and leaves the two others; no other step changes the three.
C16_ThresholdCounters ==
    [][LET new == stats'[AddrA]
       IN  IF AppliesReply
           THEN LET v == ValueOf(AppliedLine)
                IN  /\ new.match = Rec.match + (IF v = Thres THEN 1 ELSE 0)
                    /\ new.above = Rec.above + (IF v > Thres THEN 1 ELSE 0)
                    /\ new.under = Rec.under + (IF v < Thres THEN 1 ELSE 0)
           ELSE /\ new.match = Rec.match
                /\ new.above = Rec.above
                /\ new.under = Rec.under
      ]_vars

\* replies of 10, 30 and 20 ms under the threshold 20, all applied
C16_Witness ==
    /\ Thres = 20
    /\ outputsDataChan = <<ReplyLine(10), ReplyLine(30), ReplyLine(20)>>
    /\ userEvents = EmptyBag
    /\ Rec = [min |-> 10, avg |-> 20, max |-> 30, fails |-> 0,
              match |-> 1, above |-> 1, under |-> 1]

\* C17: a closure that runs on a failure line adds one to fails and changes
\* nothing else; a closure that runs on an ignored line changes no
\* statistics.
C17_FailureFrame ==
    [][StatsClosureRuns =>
          /\ AppliedLine = LineFail =>
                stats' = [stats EXCEPT ![AddrA].fails = @ + 1]
          /\ AppliedLine = LineHeader => stats' = stats
      ]_vars

\* a reply, a failure and an ignored line, all applied: one failure, min
\* and max kept
C17_Witness ==
    /\ outputsDataChan = <<ReplyLine(10), LineFail, LineHeader>>
    /\ userEvents = EmptyBag /\ statsData # EmptyStr
    /\ AppliedLine = LineHeader
    /\ Rec.fails = 1
    /\ Rec.min = 10 /\ Rec.max = 10 /\ Rec.avg = 10

\* C18: avg is (min + max) / 2 in every state, and a step changes avg only
\* if it changes min or max.
C18_AvgMidpoint ==
    /\ [](Rec.avg = Quo(Rec.min + Rec.max, 2))
    /\ [][stats'[AddrA].avg # Rec.avg =>
             (stats'[AddrA].min # Rec.min \/ stats'[AddrA].max # Rec.max)]_vars

\* 30 then 10 moved avg to 20, and the reply of 20 left it alone
C18_Witness ==
    /\ outputsDataChan = <<ReplyLine(30), ReplyLine(10), ReplyLine(20)>>
    /\ userEvents = EmptyBag /\ Rec.match + Rec.above + Rec.under = 3
    /\ Rec.min = 10 /\ Rec.max = 30 /\ Rec.avg = 20


(***************************************************************************)
(* The program while exit stays open: every step of Next but quit and the  *)
(* returns on <-exit, with the scheduler, the view-update loops, the main  *)
(* loop and the goroutines of the probes scheduled fairly. A goroutine     *)
(* that can take a step (a receive that is ready, a send that has room or  *)
(* a receiver) takes it in the end; the user and the probe processes owe   *)
(* nothing. A nil dereference (a runner or a queued closure finding its    *)
(* address deleted) ends the program: no goroutine takes a step after it.  *)
(***************************************************************************)
schedulerStep ==
    \/ schedulerPing
    \/ schedulerTrace
    \/ schedulerStop
    \/ schedulerStopCancel
    \/ schedulerLaunch

viewLoopStep ==
    \/ configViewFocus
    \/ outputsViewData
    \/ outputsViewTitle
    \/ outputsViewClear
    \/ statsViewData
    \/ statsViewClear

\* the main loop going on inside a handler it has entered
handlerStep ==
    \/ addPingIP
    \/ addPingFocus
    \/ addTracerouteIP
    \/ stopCurrentProcessingReturn
    \/ addNewIPStart
    \/ addNewIPConfig
    \/ addNewIPStats
    \/ deleteIPStart
    \/ deleteIPConfig
    \/ deleteIPStats
    \/ processInputDone

mainLoopStep ==
    \/ handlerStep
    \/ updateIPsView
    \/ configEvent
    \/ statsEvent

probeStep ==
    \/ \E p \in Probes : runnerGetConfig(p)
    \/ \E p \in Probes, now \in LaunchTimes, started \in BOOLEAN :
          runnerStart(p, now, started)
    \/ \E p \in Probes : runnerCtxDone(p)
    \/ \E p \in Probes : runnerDone(p)
    \/ \E p \in Probes : processKill(p)
    \/ \E p \in Probes : readerRead(p)
    \/ \E p \in Probes : readerSendStats(p)
    \/ \E p \in Probes : readerSendData(p)
    \/ \E p \in Probes : readerEnd(p)

\* the keys the user presses and the lines the processes write, MaxLiveInputs
\* of them at most
userStep ==
    /\ inputs < MaxLiveInputs
    /\ \/ \E ip \in Addrs : addPing(ip)
       \/ \E ip \in Addrs : addTraceroute(ip)
       \/ ipsMoveCursorDown
       \/ ipsMoveCursorUp
       \/ \E input \in SearchInputs : searchAndFocusIP(input)
       \/ stopCurrentProcessing
       \/ \E buffer \in InputBuffers : processInputAdd(buffer)
       \/ \E content \in FileContents : processInputFiles(content)
       \/ \E buffer \in InputBuffers : processInputDelete(buffer)

processStep ==
    /\ inputs < MaxLiveInputs
    /\ \/ \E p \in Probes, line \in OutputLines : processWrite(p, line)
       \/ \E p \in Probes : processExit(p)

LiveNext ==
    \/ schedulerStep
    \/ viewLoopStep
    \/ mainLoopStep
    \/ probeStep
    \/ userStep
    \/ processStep

\* the steps of the program's own goroutines that a pending send waits for:
\* the scheduler, the view-update loops, the runners and readers, and the
\* main loop finishing a handler it has entered or redrawing the list. The
\* queued closures of the configuration and statistics views (configEvent,
\* statsEvent) send on no channel and no send waits for them (g.Update
\* never blocks), so nothing is assumed of them.
InternalStep ==
    \/ schedulerStep
    \/ viewLoopStep
    \/ probeStep
    \/ handlerStep
    \/ updateIPsView

\* the Go scheduler keeps running a goroutine that can take a step
Fairness == WF_vars(InternalStep)

RECURSIVE buildStatsTimes(_, _, _)
\* the store after n closures of updateStatsView have run buildStats(data)
buildStatsTimes(db, data, n) ==
    IF n = 0 THEN db
    ELSE buildStatsTimes([db EXCEPT !.stats = buildStats(db, data).stats],
                         data, n - 1)

\* the buffered channels of capacity 10 a state of the program can have
\* full
BusyChans == {"stats", "data", "focus"}

\* a ping of AddrA is running and one buffered channel is full, its
\* receiver not having been scheduled for a while; one more event from
\* outside follows (a line that finds outputsStatsChan or outputsDataChan
\* full, a key whose handler finds focusedIPChan full).
\* "stats": the reader has forwarded LargeCap lines; updateOutputsView has
\*   taken them all from outputsDataChan, updateStatsView none from
\*   outputsStatsChan.
\* "data": the other way round: updateStatsView has taken them all and its
\*   closures have run, updateOutputsView has taken none.
\* "focus": the process has written nothing yet, and the addPing that
\*   started it and the cursor moves after it, down and up in turn, have
\*   filled focusedIPChan, from which updateConfigView has taken nothing.
BusyInit(full) ==
    LET db    == addEach(newDatabases, InitialEntries)
        cfgs  == [db.configs EXCEPT ![AddrA].start = "10:00:00"]
        line  == TrimSpace(LineReply)
        thr   == Itoa(NewConfig.threshold)
        data  == AddrA \o <<"@">> \o thr \o <<"@">> \o line
        focus == full = "focus"
    IN  /\ ips = db.ips
        /\ configs = cfgs
        /\ stats = IF full = "data"
                   THEN buildStatsTimes([db EXCEPT !.configs = cfgs], data,
                                        LargeCap).stats
                   ELSE db.stats
        /\ viewIPs = getAllIPs(db)
        /\ cursor = IF focus THEN (LargeCap - 1) % 2 ELSE 0
        /\ statsData = IF full = "data" THEN data ELSE EmptyStr
        /\ focusedIP = IF focus THEN EmptyStr ELSE AddrA
        /\ currentOnPingIP = AddrA
        /\ ipToPingChan = << >>
        /\ ipToTraceChan = << >>
        /\ outputsTitleChan = << >>
        /\ focusedIPChan =
              IF focus
              THEN [i \in 1..LargeCap |-> getAllIPs(db)[1 + ((i - 1) % 2)]]
              ELSE << >>
        /\ outputsDataChan =
              IF full = "data" THEN [i \in 1..LargeCap |-> line] ELSE << >>
        /\ outputsStatsChan =
              IF full = "stats" THEN [i \in 1..LargeCap |-> data] ELSE << >>
        /\ exit = FALSE
        /\ wg = WgInitial
        /\ ui = Idle
        /\ userEvents = EmptyBag
        /\ sched = [pc |-> "select", mode |-> "", ip |-> NoIP, cancel |-> 1]
        /\ ctxDone = [i \in {0, 1} |-> i = 0]
        /\ probes = <<[NewProbe(AddrA, "ping", 1) EXCEPT
                         !.runner = "select", !.proc = "alive",
                         !.waiter = "wait", !.reader = "read",
                         !.threshold = thr]>>
        /\ views = [l \in Loops |-> "run"]
        /\ panicked = FALSE
        /\ inputs = MaxLiveInputs - 1
        /\ lastReq = [kind |-> "ping", ip |-> AddrA]

\* the program started with one address only
SingleEntry == <<AddrB>>

\* the program at its start, with two addresses or with one, or with a
\* buffered channel full
LiveInit ==
    \/ Init
    \/ mainStart(SingleEntry)
    \/ \E full \in BusyChans : BusyInit(full)

LiveSpec == LiveInit /\ [][LiveNext]_vars /\ Fairness


\* no send is pending: the scheduler is at its select, no handler is
\* blocked, the channels are drained and no reader holds a line
NoSendPending ==
    /\ sched.pc = "select"
    /\ ui.pc = "idle"
    /\ ipToPingChan = << >> /\ ipToTraceChan = << >>
    /\ outputsTitleChan = << >> /\ focusedIPChan = << >>
    /\ outputsStatsChan = << >> /\ outputsDataChan = << >>
    /\ \A p \in Probes :
          /\ probes[p].reader \notin {"sendStats", "sendData"}
          /\ probes[p].reader = "read" => probes[p].pipe = << >>

\* C19: while exit is open no send stays blocked: once the user and the
\* processes are done, the scheduler's sends on clearOutputsViewChan and
\* clearStatsViewChan, the handlers' sends on outputsTitleChan,
\* ipToPingChan, ipToTraceChan, focusedIPChan and stopProcessingChan and the
\* readers' sends on outputsStatsChan and outputsDataChan have all
\* completed and been received, for good, also when they found their
\* channel full.
C19_SendsComplete == <>[]NoSendPending

\* every behaviour ends with no send pending or with the program dead of a
\* nil dereference
SendsCompleteOrPanic == <>[](panicked \/ NoSendPending)

\* a reader holds a line it cannot send: outputsStatsChan is full
ReaderBlocked ==
    /\ ~exit /\ ~panicked
    /\ \E p \in Probes :
          /\ probes[p].reader = "sendStats"
          /\ ~CanSend(outputsStatsChan, LargeCap)


(***************************************************************************)
(* One ping session through the statistics pipeline: the process writes    *)
(* lines, the reader forwards them, updateStatsView queues one closure a   *)
(* line and the main loop runs the closures.                               *)
(***************************************************************************)
\* the lines the process can write, each a different reply
OrderLines == {ReplyLine(n) : n \in ReplyValues \ {0}}

\* a ping of AddrA is running with the threshold of the default
\* configuration, nothing written yet
OrderInit == pingSession(NewConfig.threshold)

OrderNext ==
    \/ \E p \in Probes, line \in OrderLines : processWrite(p, line)
    \/ \E p \in Probes : readerRead(p)
    \/ \E p \in Probes : readerSendStats(p)
    \/ \E p \in Probes : readerSendData(p)
    \/ statsViewData
    \/ statsEvent

OrderSpec == OrderInit /\ [][OrderNext]_vars

\* the lines the reader has read so far, in the order it read them: what
\* it sent on outputsDataChan, which nothing receives from in this session,
\* and the line it holds until it has sent it there
LinesRead ==
    outputsDataChan \o
        (IF probes[1].reader \in {"sendStats", "sendData"}
         THEN <<probes[1].data>> ELSE << >>)

\* the lines whose closure has not run yet
PendingStats ==
    (IF probes[1].reader = "sendStats" THEN 1 ELSE 0)
        + Len(outputsStatsChan) + CopiesIn(Event("stats", EmptyStr), userEvents)

\* the store of the session before its first line
SessionStart == [dbs EXCEPT !.stats = MapPut(@, AddrA, NewStat)]

RECURSIVE ApplyLines(_, _)
\* buildStats run on each of the lines in turn
ApplyLines(db, lines) ==
    IF lines = << >> THEN db
    ELSE LET data == probes[1].ip \o <<"@">> \o probes[1].threshold \o <<"@">>
                         \o Head(lines)
         IN  ApplyLines([db EXCEPT !.stats = buildStats(db, data).stats],
                        Tail(lines))

\* C20: in one ping session the statistics updates are applied in the order
\* in which the lines were read: when k closures have run, the record is
\* the one buildStats gives on the first k lines read, one after the other.
C20_AppliedInOrder ==
    LET k == Len(LinesRead) - PendingStats
    IN  panicked \/ stats = ApplyLines(SessionStart, SubSeq(LinesRead, 1, k)).stats

(***************************************************************************)
(* Properties of the running program, second part.                         *)
(***************************************************************************)
\* buildStats(statsData) gets as far as reading the fields of
\* getStats(ip): the data has its three fields and the line is a reply or
\* a failure
StatsDereferences ==
    LET fields == Split(statsData, "@")
    IN  /\ Len(fields) >= 3
        /\ LET r == getResponseTime(fields[3])
           IN  ~r.panic /\ (r.rt # -1 \/ r.failed)

\* C21: whenever a statistics closure runs buildStats and buildStats
\* dereferences the record getStats(ip) returned, that record exists, also
\* for a line that was queued before its address was deleted.
C21_StatsRecordExists ==
    [][(StatsClosureRuns /\ StatsDereferences) =>
          getStats(dbs, Split(statsData, "@")[1]) # Nil]_vars

\* C22: after a probe's context is cancelled its helper goroutines end:
\* the waiter is never left at its send done <- cmd.Wait() once the runner,
\* the only receiver of done, has returned.
C22_HelpersTerminate ==
    \A p \in Probes :
        (ctxDone[probes[p].ctx] /\ probes[p].runner = "done") =>
            probes[p].waiter # "send"

\* the probe's runner returned before a process ran: StdoutPipe or Start
\* failed
FailedStart(p) == probes[p].runner = "done" /\ probes[p].proc = "none"

\* C23: a runner whose pipe or process start fails returns at once: it has
\* no waiter and no reader and its pipe holds nothing; the step publishes
\* nothing on outputsDataChan and outputsStatsChan, starts no other runner
\* and leaves the scheduler as it was; and there are never more runners
\* than requests the user made.
C23_FailedStartReturns ==
    /\ [](\A p \in Probes :
             FailedStart(p) => /\ probes[p].waiter = "none"
                               /\ probes[p].reader = "none"
                               /\ probes[p].pipe = << >>)
    /\ [](Len(probes) <= inputs)
    /\ [][\A p \in Probes :
             (/\ probes[p].runner \in {"start", "build"}
              /\ probes'[p].runner = "done") =>
                 /\ outputsDataChan' = outputsDataChan
                 /\ outputsStatsChan' = outputsStatsChan
                 /\ Len(probes') = Len(probes)
                 /\ sched' = sched]_vars

\* the first runner failed to start, and the scheduler has since launched
\* a second runner, whose process runs
C23_Witness ==
    /\ Len(probes) = 2
    /\ FailedStart(1)
    /\ probes[2].proc = "alive" /\ ~ctxDone[probes[2].ctx]

\* the runner of probe p is about to write cfg.start in buildPingCommand
\* through the pointer getConfig returned, no lock held, and the record is
\* still the one the store has for the address
WritesConfigStart(p) ==
    /\ Running /\ probes[p].runner = "build"
    /\ probes[p].cfg # Nil /\ ~probes[p].detached

\* a closure of updateConfigView is about to run formatIPConfig(ip) on the
\* main goroutine, which reads the fields of the record, no lock held
ReadsConfig(ip) ==
    /\ Running /\ ui.pc = "idle"
    /\ BagIn(Event("config", EmptyStr), userEvents)
    /\ focusedIP = ip

\* C24: no record field is written by one goroutine while another can
\* read it without a lock or a channel hand-off between the two: the
\* runner's write of config.start and the read of the same record by
\* formatIPConfig are never both about to happen.
C24_NoUnsynchronizedAccess ==
    \A p \in Probes : ~(WritesConfigStart(p) /\ ReadsConfig(probes[p].ip))

(***************************************************************************)
(* One running probe, ping or traceroute, and its line reader: the process *)
(* writes lines, blank ones among them, the reader publishes them, and the *)
(* statistics lines go on to updateStatsView and its closures. Nothing     *)
(* receives from outputsDataChan, so it holds what the reader sent on it.  *)
(***************************************************************************)
\* what reader.ReadString(NL) returns: a reply, a failure and a blank line,
\* each with its line end
ReaderLines ==
    {LineReply \o <<"\n">>, LineFail \o <<"\r", "\n">>, <<"\n">>}

ReaderInit ==
    \E mode \in {"ping", "trace"}, t \in Thresholds :
        LET db   == addNewIP(newDatabases, AddrA)
            ping == mode = "ping"
        IN  /\ ips = db.ips
            /\ configs = [db.configs EXCEPT
                             ![AddrA].threshold = t,
                             ![AddrA].start = IF ping THEN "10:00:00" ELSE @]
            /\ stats = db.stats
            /\ viewIPs = <<AddrA>>
            /\ cursor = 0
            /\ statsData = EmptyStr
            /\ focusedIP = IF ping THEN AddrA ELSE EmptyStr
            /\ currentOnPingIP = IF ping THEN AddrA ELSE NoIP
            /\ ipToPingChan = << >>
            /\ ipToTraceChan = << >>
            /\ outputsTitleChan = << >>
            /\ focusedIPChan = << >>
            /\ outputsDataChan = << >>
            /\ outputsStatsChan = << >>
            /\ exit = FALSE
            /\ wg = WgInitial
            /\ ui = Idle
            /\ userEvents = EmptyBag
            /\ sched = [pc |-> "select", mode |-> "", ip |-> NoIP, cancel |-> 1]
            /\ ctxDone = [i \in {0, 1} |-> i = 0]
            /\ probes = <<[NewProbe(AddrA, mode, 1) EXCEPT
                             !.runner = "select", !.proc = "alive",
                             !.waiter = "wait", !.reader = "read",
                             !.threshold = IF ping THEN Itoa(t) ELSE EmptyStr]>>
            /\ views = [l \in Loops |-> "run"]
            /\ panicked = FALSE
            /\ inputs = 0
            /\ lastReq = [kind |-> mode, ip |-> AddrA]

ReaderNext ==
    \/ \E p \in Probes, line \in ReaderLines : processWrite(p, line)
    \/ \E p \in Probes : readerRead(p)
    \/ \E p \in Probes : readerSendStats(p)
    \/ \E p \in Probes : readerSendData(p)
    \/ statsViewData
    \/ statsEvent

ReaderSpec == ReaderInit /\ [][ReaderNext]_vars

\* C25: only non-empty lines are published: whatever the reader of a ping
\* or of a traceroute has sent on outputsDataChan is not the empty string.
C25_NoEmptyLinePublished ==
    \A i \in 1..Len(outputsDataChan) : outputsDataChan[i] # EmptyStr

\* the step is a read of probe p's reader: it takes the first line off
\* the pipe
ReaderTurn(p) ==
    probes[p].pipe # << >> /\ probes'[p].pipe = Tail(probes[p].pipe)

\* the step is the send on outputsStatsChan of probe p's reader
ReaderSendsStats(p) ==
    probes[p].reader = "sendStats" /\ probes'[p].reader = "sendData"

\* the step is the send on outputsDataChan of probe p's reader
ReaderSends(p) ==
    probes[p].reader = "sendData" /\ probes'[p].reader = "read"

\* ip@threshold@line with the threshold the address is configured with
Tagged(ip, line) ==
    ip \o <<"@">> \o Itoa(configs[ip].threshold) \o <<"@">> \o line

\* C26: a ping reader that reads a non-empty line appends the line tagged
\* with the address and its threshold once to outputsStatsChan and then
\* the trimmed line once to outputsDataChan, and on an empty line it goes
\* back to read; a traceroute reader appends the trimmed line to
\* outputsDataChan and leaves outputsStatsChan alone; no other step
\* publishes anything; and during a traceroute no statistics record changes.
C26_ReaderPublishes ==
    [][/\ \A p \in Probes :
             ReaderTurn(p) =>
                 LET line == TrimSpace(Head(probes[p].pipe))
                     ping == probes[p].mode = "ping"
                 IN  /\ outputsDataChan' = outputsDataChan
                     /\ outputsStatsChan' = outputsStatsChan
                     /\ IF ping /\ line = EmptyStr
                        THEN probes'[p].reader = "read"
                        ELSE /\ probes'[p].reader =
                                    IF ping THEN "sendStats" ELSE "sendData"
                             /\ probes'[p].data = line
       /\ \A p \in Probes :
             ReaderSendsStats(p) =>
                 /\ probes[p].mode = "ping"
                 /\ outputsStatsChan' =
                       Append(outputsStatsChan,
                              Tagged(probes[p].ip, probes[p].data))
                 /\ outputsDataChan' = outputsDataChan
                 /\ probes'[p].data = probes[p].data
       /\ \A p \in Probes :
             ReaderSends(p) =>
                 /\ outputsDataChan' = Append(outputsDataChan, probes[p].data)
                 /\ outputsStatsChan' = outputsStatsChan
       /\ outputsDataChan' # outputsDataChan
              => \E p \in Probes : ReaderSends(p)
       /\ Len(outputsStatsChan') > Len(outputsStatsChan)
              => \E p \in Probes : ReaderSendsStats(p)
       /\ (\A p \in Probes : probes[p].mode = "trace") => stats' = stats]_vars

\* a ping process wrote three lines, one of them blank; the reader has
\* read them all and published the two others
C26_Witness ==
    /\ probes[1].mode = "ping"
    /\ inputs = 3 /\ probes[1].pipe = << >> /\ probes[1].reader = "read"
    /\ Len(outputsDataChan) = 2

\* C27: a delete request leaves the address being pinged where it is: while
\* deleteOneMoreIPs handles an entry that is currentOnPingIP once trimmed
\* of its blanks, the address stays in ips, configs and stats.
C27_GuardOnTrimmedEntry ==
    [][(/\ ui.pc = "delete" /\ ui.i <= Len(ui.list)
        /\ Stored(currentOnPingIP)
        /\ TrimSpace(ui.list[ui.i]) = currentOnPingIP)
          => /\ currentOnPingIP \in ips'
             /\ currentOnPingIP \in DOMAIN configs'
             /\ currentOnPingIP \in DOMAIN stats']_vars

(***************************************************************************)
(* addNewIP and deleteIP one lock at a time: each of the three maps is     *)
(* updated under its own lock, and between two of these updates the other  *)
(* goroutines see the store as it is. ui holds the place of the handler    *)
(* inside the call and the address it works on.                            *)
(***************************************************************************)
\* what is typed into the add / delete box: an entry of one address
StepEntries == {AddrA, <<" ">> \o AddrA, AddrB, AddrB \o <<"\n">>, AddrC}

StepInit == StoreInit

StepNext ==
    \/ \E buffer \in StepEntries : processInputAdd(buffer)
    \/ addNewIPStart
    \/ addNewIPConfig
    \/ addNewIPStats
    \/ \E buffer \in StepEntries : processInputDelete(buffer)
    \/ deleteIPStart
    \/ deleteIPConfig
    \/ deleteIPStats
    \/ processInputDone
    \/ updateIPsView

StepSpec == StepInit /\ [][StepNext]_vars

\* C28: at every step of addNewIP and deleteIP, an address isExistsIP and
\* getAllIPs report as present has a configuration and a statistics record.
C28_NoPartialAddress ==
    \A ip \in ValidIPLiterals :
        isExistsIP(dbs, ip) =>
            getConfig(dbs, ip) # Nil /\ getStats(dbs, ip) # Nil

(***************************************************************************)
(* Properties of the running program, third part.                          *)
(***************************************************************************)
\* the step is the runner of probe p calling getConfig in buildPingCommand
RunnerBuilds(p) ==
    /\ p <= Len(probes')
    /\ probes[p].runner = "start" /\ probes'[p].runner = "build"

\* C29: when the runner the scheduler launched for a ping of ip runs
\* buildPingCommand, getConfig(ip) returns an existing record.
C29_RunnerConfigExists ==
    [][\A p \in Probes :
          RunnerBuilds(p) => probes'[p].cfg # Nil]_vars

(***************************************************************************)
(* Properties of the address store, second part.                           *)
(***************************************************************************)
\* arguments of deleteIP: addresses, an address between blanks, a string
\* that is no address and the empty string
DeleteArgs ==
    {AddrA, AddrB, AddrC, <<" ">> \o AddrA \o <<"\n">>, <<"x">>, EmptyStr}

\* C30: deleteIP changes none of the three maps when its argument, trimmed,
\* is no IP literal or is not stored; otherwise it removes the address from
\* ips, configs and stats and leaves the entries of every other address as
\* they are.
C30_DeleteComplete ==
    StoreAtRest =>
        \A rawip \in DeleteArgs :
            LET ip == TrimSpace(rawip)
                db == deleteIP(dbs, rawip)
            IN  IF ip \notin ValidIPLiterals \/ ip \notin ips
                THEN db = dbs
                ELSE /\ db.ips = ips \ {ip}
                     /\ DOMAIN db.configs = (DOMAIN configs) \ {ip}
                     /\ DOMAIN db.stats = (DOMAIN stats) \ {ip}
                     /\ \A other \in ips \ {ip} :
                            /\ db.configs[other] = configs[other]
                            /\ db.stats[other] = stats[other]

\* the delete box has removed "1.1.1.1" and "::1" is still stored, with a
\* start time and a sample of its own
C30_Witness ==
    /\ HandlerDone("delete", AddrB)
    /\ AddrB \notin ips /\ AddrB \notin DOMAIN stats
    /\ AddrA \in ips /\ configs[AddrA].start # "n/a"
    /\ stats[AddrA] # NewStat

\* arguments of addOneMoreIPs: the buffers of the store, a list with an
\* empty entry, a list with an invalid entry first, and a list with blanks
\* around its entries
BatchArgs ==
    StoreBuffers \cup
        {AddrA \o <<",", ",">> \o AddrC,
         <<"x", ",">> \o AddrC,
         <<" ">> \o AddrB \o <<" ", ",", " ">> \o AddrC \o <<"\n">>}

\* C31: addOneMoreIPs adds every entry whose trimmed value is a valid IP
\* literal not yet stored, with a default configuration and zero
\* statistics, skips the other entries, leaves what was stored as it is,
\* and on an input without a comma does what addNewIP does.
C31_BatchAddPerEntry ==
    StoreAtRest =>
        \A buffer \in BatchArgs :
            LET db    == addOneMoreIPs(dbs, buffer)
                added == (Entries(buffer) \cap ValidIPLiterals) \ ips
            IN  /\ db.ips = ips \cup added
                /\ DOMAIN db.configs = (DOMAIN configs) \cup added
                /\ DOMAIN db.stats = (DOMAIN stats) \cup added
                /\ \A ip \in added : /\ db.configs[ip] = NewConfig
                                      /\ db.stats[ip] = NewStat
                /\ \A ip \in ips : /\ db.configs[ip] = configs[ip]
                                    /\ db.stats[ip] = stats[ip]
                /\ ~Contains(buffer, <<",">>) => db = addNewIP(dbs, buffer)

\* the add box has gone through "::1,::2" when ::1 was stored with a start
\* time of its own: ::2 has been added with its defaults
C31_Witness ==
    /\ HandlerDone("add", AddrA \o <<",">> \o AddrC)
    /\ AddrA \in ips /\ configs[AddrA].start # "n/a"
    /\ AddrC \in ips /\ configs[AddrC] = NewConfig /\ stats[AddrC] = NewStat

(***************************************************************************)
(* The command lines: buildPingCommand and buildTracerouteCommand on a     *)
(* configuration whose fields are drawn from small sets, for both values   *)
(* of runtime.GOOS the code distinguishes. The runner takes the record     *)
(* with getConfig and builds the command in a later step, and the delete   *)
(* box can run in between. The command line built is kept in lastReq.      *)
(***************************************************************************)
RequestCounts == {0, 1, 12}
Timeouts == {0, 3}
PacketSizes == {0, 64}
GOOS == {"windows", "linux"}

Flag(c) == <<" ", "-", c>>

\* fmt.Sprintf(" -<c> %d", n)
FlagValue(c, n) == Flag(c) \o <<" ">> \o Itoa(n)

\* a windows branch without its else: no flag when requests is 0
buildPingCommandNoUnlimited(goos, ip, cfg) ==
    LET win == goos = "windows"
    IN  [threshold |-> Itoa(cfg.threshold),
         name |-> IF win THEN "cmd" ELSE "LinuxShell",
         syntax |->
            <<"p", "i", "n", "g", " ">> \o ip
            \o (IF cfg.requests > 0
                THEN FlagValue(IF win THEN "n" ELSE "c", cfg.requests)
                ELSE EmptyStr)
            \o (IF cfg.timeout > 0
                THEN FlagValue(IF win THEN "w" ELSE "W", cfg.timeout)
                ELSE EmptyStr)
            \o (IF cfg.size > 0
                THEN FlagValue(IF win THEN "l" ELSE "s", cfg.size)
                ELSE EmptyStr)]

\* buildPingCommand on the configuration cfg of ip: the threshold as a
\* string, the program exec.CommandContext runs and the command line it is
\* given
buildPingCommand(goos, ip, cfg) ==
    LET win == goos = "windows"
    IN  [threshold |-> Itoa(cfg.threshold),
         name |-> IF win THEN "cmd" ELSE "LinuxShell",
         syntax |->
            <<"p", "i", "n", "g", " ">> \o ip
            \o (IF cfg.requests > 0
                THEN FlagValue(IF win THEN "n" ELSE "c", cfg.requests)
                ELSE IF win THEN Flag("t") ELSE EmptyStr)
            \o (IF cfg.timeout > 0
                THEN FlagValue(IF win THEN "w" ELSE "W", cfg.timeout)
                ELSE EmptyStr)
            \o (IF cfg.size > 0
                THEN FlagValue(IF win THEN "l" ELSE "s", cfg.size)
                ELSE EmptyStr)]

\* buildTracerouteCommand
buildTracerouteCommand(goos, ip) ==
    IF goos = "windows"
    THEN [name |-> "cmd",
          syntax |-> <<"t", "r", "a", "c", "e", "r", "t", " ">> \o ip]
    ELSE [name |-> "LinuxShell",
          syntax |-> <<"t", "r", "a", "c", "e", "r", "o", "u", "t", "e", " ">>
                        \o ip]

\* the scheduler has launched the runner of a ping or a traceroute of
\* AddrA, which has not run yet; the configuration holds a request count, a
\* timeout, a packet size and a threshold
CmdInit ==
    \E r \in RequestCounts, w \in Timeouts, z \in PacketSizes,
       t \in Thresholds, mode \in {"ping", "trace"} :
        LET db   == addNewIP(newDatabases, AddrA)
            ping == mode = "ping"
        IN  /\ ips = db.ips
            /\ configs = [db.configs EXCEPT ![AddrA].requests = r,
                                            ![AddrA].timeout = w,
                                            ![AddrA].size = z,
                                            ![AddrA].threshold = t]
            /\ stats = db.stats
            /\ viewIPs = <<AddrA>>
            /\ cursor = 0
            /\ statsData = EmptyStr
            /\ focusedIP = IF ping THEN AddrA ELSE EmptyStr
            /\ currentOnPingIP = IF ping THEN AddrA ELSE NoIP
            /\ ipToPingChan = << >>
            /\ ipToTraceChan = << >>
            /\ outputsTitleChan = << >>
            /\ focusedIPChan = << >>
            /\ outputsDataChan = << >>
            /\ outputsStatsChan = << >>
            /\ exit = FALSE
            /\ wg = WgInitial
            /\ ui = Idle
            /\ userEvents = EmptyBag
            /\ sched = [pc |-> "select", mode |-> "", ip |-> NoIP, cancel |-> 1]
            /\ ctxDone = [i \in {0, 1} |-> i = 0]
            /\ probes = <<NewProbe(AddrA, mode, 1)>>
            /\ views = [l \in Loops |-> "run"]
            /\ panicked = FALSE
            /\ inputs = 0
            /\ lastReq = [kind |-> mode, ip |-> AddrA]

\* lastReq holds the command line built for the request
Built == "syntax" \in DOMAIN lastReq

\* the ping runner after getConfig, with the command line kept: cfg.start =
\* now on the record it holds (a panic on nil, a write the store does not
\* see on a record deleteIP has dropped), the command built from that
\* record, and the start of the process as in runnerStart. cfg stays in
\* the probe record: it is what the command was built from.
commandPing(goos, p, now, started) ==
    /\ Running /\ probes[p].runner = "build"
    /\ LET pr  == probes[p]
           cmd == buildPingCommand(goos, pr.ip, pr.cfg)
       IN  IF pr.cfg = Nil
           THEN /\ panicked' = TRUE
                /\ UNCHANGED <<configs, probes, lastReq>>
           ELSE /\ panicked' = FALSE
                /\ configs' = IF pr.detached THEN configs
                              ELSE [configs EXCEPT ![pr.ip].start = now]
                /\ lastReq' = [kind |-> "ping", ip |-> pr.ip, goos |-> goos,
                               threshold |-> cmd.threshold,
                               name |-> cmd.name, syntax |-> cmd.syntax]
                /\ probes' =
                     IF started /\ ~ctxDone[pr.ctx]
                     THEN [probes EXCEPT ![p].runner = "select",
                                         ![p].proc = "alive",
                                         ![p].waiter = "wait",
                                         ![p].reader = "read",
                                         ![p].threshold = cmd.threshold]
                     ELSE [probes EXCEPT ![p].runner = "done"]
    /\ UNCHANGED <<ips, stats, viewIPs, cursor, statsData, focusedIP,
                   currentOnPingIP, ipToPingChan, ipToTraceChan,
                   outputsTitleChan, focusedIPChan, outputsDataChan,
                   outputsStatsChan, exit, wg, ui, userEvents, sched,
                   ctxDone, views, inputs>>

\* the traceroute runner, with the command line kept:
\* buildTracerouteCommand(ip, ctx) and the start of the process as in
\* runnerStart
commandTraceroute(goos, p, started) ==
    /\ Running /\ probes[p].runner = "start" /\ probes[p].mode = "trace"
    /\ LET pr  == probes[p]
           cmd == buildTracerouteCommand(goos, pr.ip)
       IN  /\ lastReq' = [kind |-> "trace", ip |-> pr.ip, goos |-> goos,
                          threshold |-> EmptyStr, name |-> cmd.name,
                          syntax |-> cmd.syntax]
           /\ probes' =
                IF started /\ ~ctxDone[pr.ctx]
                THEN [probes EXCEPT ![p].runner = "select",
                                    ![p].proc = "alive",
                                    ![p].waiter = "wait",
                                    ![p].reader = "read"]
                ELSE [probes EXCEPT ![p].runner = "done"]
    /\ UNCHANGED <<ips, configs, stats, viewIPs, cursor, statsData,
                   focusedIP, currentOnPingIP, ipToPingChan, ipToTraceChan,
                   outputsTitleChan, focusedIPChan, outputsDataChan,
                   outputsStatsChan, exit, wg, ui, userEvents, sched,
                   ctxDone, views, panicked, inputs>>

\* the runner, and the delete box on the main goroutine, which can take
\* the address out of the store before or after the runner's getConfig
CmdNext ==
    \/ \E p \in Probes : runnerGetConfig(p)
    \/ \E goos \in GOOS, p \in Probes, now \in LaunchTimes,
          started \in BOOLEAN :
          commandPing(goos, p, now, started)
    \/ \E goos \in GOOS, p \in Probes, started \in BOOLEAN :
          commandTraceroute(goos, p, started)
    \/ \E buffer \in InputBuffers : processInputDelete(buffer)
    \/ deleteIPStart
    \/ deleteIPConfig
    \/ deleteIPStats
    \/ processInputDone
    \/ updateIPsView

CmdSpec == CmdInit /\ [][CmdNext]_vars

\* the words of a command line
Words(syntax) == Split(syntax, " ")

HasWord(syntax, w) == \E i \in 1..Len(Words(syntax)) : Words(syntax)[i] = w

\* the word w is in the command line, followed by the number n
HasWordValue(syntax, w, n) ==
    \E i \in 1..(Len(Words(syntax)) - 1) :
        Words(syntax)[i] = w /\ Words(syntax)[i + 1] = Itoa(n)

\* C32: the ping command line is "ping <ip>" followed by the count flag
\* with the request count exactly when the count is > 0 (-c on unix, -n on
\* windows), by -t exactly when the count is 0 on windows, by the timeout
\* flag (-W / -w) and the packet-size flag (-s / -l) with their values
\* exactly when these are > 0, and by nothing else; the traceroute command
\* line is "traceroute <ip>" or "tracert <ip>" and nothing else.
C32_CommandFlags ==
    LET cfg    == probes[1].cfg
        win    == lastReq.goos = "windows"
        syntax == lastReq.syntax
        count  == IF win THEN <<"-", "n">> ELSE <<"-", "c">>
        wait   == IF win THEN <<"-", "w">> ELSE <<"-", "W">>
        size   == IF win THEN <<"-", "l">> ELSE <<"-", "s">>
        other  == IF win THEN {<<"-", "c">>, <<"-", "W">>, <<"-", "s">>}
                  ELSE {<<"-", "n">>, <<"-", "w">>, <<"-", "l">>,
                        <<"-", "t">>}
    IN  /\ (Built /\ lastReq.kind = "ping") =>
            /\ Words(syntax)[1] = <<"p", "i", "n", "g">>
            /\ Words(syntax)[2] = lastReq.ip
            /\ HasWord(syntax, count) <=> cfg.requests > 0
            /\ cfg.requests > 0 => HasWordValue(syntax, count, cfg.requests)
            /\ HasWord(syntax, <<"-", "t">>) <=> (win /\ cfg.requests = 0)
            /\ HasWord(syntax, wait) <=> cfg.timeout > 0
            /\ cfg.timeout > 0 => HasWordValue(syntax, wait, cfg.timeout)
            /\ HasWord(syntax, size) <=> cfg.size > 0
            /\ cfg.size > 0 => HasWordValue(syntax, size, cfg.size)
            /\ \A w \in other : ~HasWord(syntax, w)
            /\ Len(Words(syntax)) =
                   2 + (IF cfg.requests > 0 THEN 2 ELSE IF win THEN 1 ELSE 0)
                     + (IF cfg.timeout > 0 THEN 2 ELSE 0)
                     + (IF cfg.size > 0 THEN 2 ELSE 0)
        /\ (Built /\ lastReq.kind = "trace") =>
            Words(syntax) =
                <<IF win THEN <<"t", "r", "a", "c", "e", "r", "t">>
                  ELSE <<"t", "r", "a", "c", "e", "r", "o", "u", "t", "e">>,
                  lastReq.ip>>

\* a windows ping command was built from a configuration with no request
\* count, a timeout and a packet size, which the delete box took out of
\* the store after the runner had got it
C32_Witness ==
    /\ Built /\ lastReq.kind = "ping" /\ lastReq.goos = "windows"
    /\ probes[1].cfg.requests = 0
    /\ probes[1].cfg.timeout > 0 /\ probes[1].cfg.size > 0
    /\ HasWord(lastReq.syntax, <<"-", "t">>)
    /\ AddrA \notin DOMAIN configs /\ ~panicked

(***************************************************************************)
(* Properties of the running program, fourth part.                         *)
(***************************************************************************)
\* the runner of probe p starts its process in this step
StartsProcess(p) ==
    /\ p <= Len(probes')
    /\ probes[p].runner \in {"start", "build"}
    /\ probes'[p].proc = "alive"

\* C33: whenever a runner, ping or traceroute, starts a process for an
\* address, the start field of the address's configuration holds the launch
\* time after the step.
C33_LaunchRecordsStart ==
    [][\A p \in 1..Len(probes) :
          StartsProcess(p) =>
              /\ probes[p].ip \in DOMAIN configs'
              /\ configs'[probes[p].ip].start \in LaunchTimes]_vars

(***************************************************************************)
(* Properties of the statistics, second part (StatsSpec).                  *)
(***************************************************************************)
\* C34: a reply applied to the record after the first one changes at most
\* one of min and max, and changes neither when it equals the current min
\* or the current max.
C34_OneBoundPerReply ==
    [][(AppliesReply /\ Applied > 0) =>
          LET v == ValueOf(AppliedLine)
          IN  /\ ~(stats'[AddrA].min # Rec.min /\ stats'[AddrA].max # Rec.max)
              /\ (v = Rec.min \/ v = Rec.max) =>
                    (stats'[AddrA].min = Rec.min /\ stats'[AddrA].max = Rec.max)
      ]_vars

(***************************************************************************)
(* Properties of the running program, fifth part.                          *)
(***************************************************************************)
\* no request is pending on ipToPingChan, ipToTraceChan or
\* stopProcessingChan, the handler of a stop the scheduler received has
\* returned, and the scheduler waits in its select
SchedulerQuiet ==
    /\ Running
    /\ ipToPingChan = << >> /\ ipToTraceChan = << >>
    /\ ui.pc \notin {"stop", "stopped"}
    /\ sched.pc = "select"

\* the runner launched last is a ping whose context is not cancelled
LastRunnerIsLivePing ==
    /\ probes # << >>
    /\ probes[Len(probes)].mode = "ping"
    /\ ~ctxDone[probes[Len(probes)].ctx]

\* C35: when the scheduler is quiet, currentOnPingIP is non-empty exactly
\* when the runner launched last is a ping that was not cancelled, and then
\* it is the address of that runner.
C35_GuardTracksScheduler ==
    SchedulerQuiet =>
        /\ currentOnPingIP # NoIP <=> LastRunnerIsLivePing
        /\ LastRunnerIsLivePing => currentOnPingIP = probes[Len(probes)].ip

\* C36: the scheduler starts no runner once exit is closed.
C36_NoLaunchAfterExit ==
    [][Len(probes') > Len(probes) => ~exit]_vars

(***************************************************************************)
(* Properties of the statistics, third part (StatsSpec).                   *)
(***************************************************************************)
StatFields == {"min", "avg", "max", "fails", "match", "above", "under"}

\* the record is ordered and none of its seven fields is negative
RecordInRange ==
    /\ Rec.min <= Rec.avg /\ Rec.avg <= Rec.max
    /\ \A f \in StatFields : Rec[f] >= 0

\* C37, as stated: the record is ordered and non-negative, and none of its
\* seven fields ever decreases during a session.
C37_NothingDecreases ==
    /\ []RecordInRange
    /\ [][\A f \in StatFields : stats'[AddrA][f] >= Rec[f]]_vars

\* C37, as the code has it: the record is ordered and non-negative, and
\* max, fails, match, above and under never decrease during a session (min
\* and avg move down when a smaller reply arrives).
C37_RecordBounds ==
    /\ []RecordInRange
    /\ [][\A f \in StatFields \ {"min", "avg"} :
             stats'[AddrA][f] >= Rec[f]]_vars

\* replies of 30 and 10 and a failure, all applied: min and avg have moved
\* down
C37_Witness ==
    /\ outputsDataChan = <<ReplyLine(30), ReplyLine(10), LineFail>>
    /\ userEvents = EmptyBag
    /\ Rec.min = 10 /\ Rec.avg = 20 /\ Rec.max = 30 /\ Rec.fails = 1

\* C38: no close(exit) finds exit already closed: once exit is closed the
\* main goroutine is past MainLoop, at wg.Wait() or returned, where neither
\* quit nor the error branch of main can run again.
C38_ExitClosedOnce ==
    /\ ui.pc # "close"
    /\ exit => ui.pc \in {"wait", "exited"}

\* exit was closed while a runner was launched, the four loops returned and
\* main has returned from wg.Wait(): nothing panicked
C38_Witness ==
    /\ exit /\ ui.pc = "exited" /\ ~panicked /\ wg = 0
    /\ probes # << >>

=============================================================================
